---- MODULE Spec2Model ----
(***************************************************************************)
(* SZ-Room: announcement crawler with two-tier deduplication (Redis with   *)
(* TTL, bounded in-memory Map), Feishu delivery (Bot API / webhook) and a  *)
(* cron scheduler with graceful shutdown.                                  *)
(*                                                                         *)
(* Two state machines share the variable list:                             *)
(*   Spec       one process running CrawlerService.run() repeatedly: the   *)
(*              dedup stage, the delivery stage and the mark-as-sent       *)
(*              stage, interleaved with the Redis connection events, the   *)
(*              startup liveness probe and the clock;                      *)
(*   SchedSpec  Application / CronJobManager: triggers, the isRunning      *)
(*              flag and the shutdown wait loop (FairSchedSpec adds the    *)
(*              fairness of the timers).                                   *)
(***************************************************************************)
EXTENDS Integers, Sequences, FiniteSets, TLC

VARIABLES
    \* ---- dedup tiers (utils/cache.ts, services/redisService.ts) ----
    cache,             \* MemoryCache.cache: entries [id, timestamp] in Map insertion order
    now,               \* Date.now()
    redisKeys,         \* ids whose "sent:<id>" key exists in Redis
    redisEnabled,      \* config.redis.enabled
    redisInit,         \* RedisService.init(): "disabled" | "connecting" | "connected" | "failed"
    isConnected,       \* RedisService.isConnected
    isRedisAvailable,  \* module flag of filter/deduplication.ts
    probeDone,         \* the setTimeout(…, 2000) liveness probe has fired
    \* ---- Feishu configuration (config/feishu.ts) ----
    botConfigured,     \* appId && appSecret && chatId
    webhookConfigured, \* webhookUrl
    \* ---- what the process was started with ----
    source,            \* the record lists fetchPages + parsePages can return in the explored runs
    pushMode,          \* CrawlerService.pushMode: "single" | "categorized" | "by-category"
    filterKeywords,    \* config.filter.keywords (FILTER_KEYWORDS)
    recordDelivered,   \* whether the history variable delivered is kept in this exploration
    \* ---- stages of run() around the dedup stage ----
    allNotices,        \* allNotices of run(): what parsePages returned
    categoryRules,     \* config.filter.categoryRules (categorizeNotices sorts it in place)
    categorized,       \* CategorizedNotices: <<category, records>> in key insertion order
    sections,          \* the category sections of the card that was rendered, in order
    outcomes,          \* PushResult[] of by-category mode: <<category, success>> in order
    delivered,         \* ids of the records whose payload was reported delivered so far
    errorNotice,       \* "none" | "ok" | "failed": result of FeishuBot.pushError in this run
    \* ---- one CrawlerService.run() invocation ----
    runPc,             \* position of the invocation
    runCount,          \* invocations started so far
    notices,           \* FilterResult.notices handed to DeduplicationFilter.process
    deduped,           \* internallyDeduped, kept across the await of the Redis check
    newNotices,        \* dedupeResult.notices
    attempt,           \* loop variable of pushViaWebhook
    botAttempts,       \* client.im.message.create calls made for this payload
    webhookAttempts,   \* axios.post calls made for this payload
    delays,            \* the sleeps of pushViaWebhook for this payload, in order
    pushResult,        \* "none" | "ok" | "failed": PushResult.success of this run
    runResult,         \* "none" | "success" | "failure": success field returned by run()
    runError,          \* the error run() caught: "none" | "no_page" | "no_record"
    counters,          \* totalProcessed, newNotices and filteredOut of the result run() returned, "none" before
    \* ---- observations of the last novelty check / mark-as-sent ----
    checkPath,         \* which code path served the check
    cacheAtCheck,      \* ids in the memory tier when the check was made
    redisAtCheck,      \* ids in Redis when the check was made
    healthyAtCheck,    \* isRedisAvailable /\ isReady() when the check was made
    markPath,          \* which code path served the markBatchAsSent of run()
    tierOp,            \* the MemoryCache method called last from outside a run: "none" | "add" | "addBatch" | "clear" | "cleanup"
    removedCount,      \* local removedCount of that call when it was cleanup, else 0
    \* ---- Application / CronJobManager (app.ts) ----
    appPc,             \* "starting" | "runonce" | "running"
    runOnceMode,       \* config.app.runOnce
    scheduleEnabled,   \* config.schedule.enabled
    devMode,           \* config.app.nodeEnv === 'development'
    devTimer,          \* the setTimeout(executeOnce, 5000): "none" | "pending" | "fired"
    task,              \* CronJobManager.task !== null
    isRunning,         \* CronJobManager.isRunning
    executionCount,    \* CronJobManager.executionCount
    isShuttingDown,    \* Application.isShuttingDown
    shutdownPc,        \* "none" | "waiting" | "done": position of CronJobManager.shutdown
    waitTime,          \* local waitTime of CronJobManager.shutdown
    exited,            \* process.exit was called
    inFlight,          \* crawlerService.run() calls that have started and not returned
    skipped,           \* triggers skipped by executeTask
    startedInShutdown, \* an invocation started while isShuttingDown was set
    taskOutcome,       \* how the last invocation of executeTask ended: "none" | "success" | "failure" | "thrown"
    taskErrorNotice,   \* "none" | "attempted": FeishuBot.pushError was called by the catch of that invocation
    cronExpression,    \* config.schedule.cronExpression
    cronTimers,        \* expressions of the node-cron tasks that were started and not stopped, oldest first
    lastCall,          \* the CronJobManager method called last from outside: [op, arg, threw]
    \* ---- WebScraper.fetchMultiplePages / HttpClient.requestWithRetry (crawler/scraper.ts) ----
    retryTimes,        \* config.crawler.retryTimes (CRAWLER_RETRY_TIMES)
    pageCount,         \* parameter pageCount of fetchMultiplePages
    fetchPc,           \* "idle" | "request" | "done": position of fetchMultiplePages
    pageNum,           \* loop variable i of fetchMultiplePages
    retryAttempt,      \* loop variable attempt of requestWithRetry
    responses,         \* what the requests made for page pageNum ended with, in order
    sleeps,            \* the sleeps of requestWithRetry for page pageNum, in order
    results,           \* results of fetchMultiplePages: the pages pushed, in order
    fetchLog           \* the pages fetchNoticeListPage has finished with: [page, responses, sleeps, outcome]

dedupVars == <<cache, now, redisKeys, redisEnabled, redisInit, isConnected,
               isRedisAvailable, probeDone>>
feishuVars == <<botConfigured, webhookConfigured>>
envVars == <<source, pushMode, recordDelivered, filterKeywords>>
stageVars == <<allNotices, categoryRules, categorized, sections, outcomes, delivered,
               errorNotice>>
runVars == <<runPc, runCount, notices, deduped, newNotices, attempt, botAttempts,
             webhookAttempts, delays, pushResult, runResult, runError, counters>>
obsVars == <<checkPath, cacheAtCheck, redisAtCheck, healthyAtCheck, markPath, tierOp,
             removedCount>>
cronVars == <<cronExpression, cronTimers, lastCall>>
schedVars == <<appPc, runOnceMode, scheduleEnabled, devMode, devTimer, task, isRunning, executionCount,
               isShuttingDown, shutdownPc, waitTime, exited, inFlight,
               skipped, startedInShutdown, taskOutcome, taskErrorNotice, cronVars>>
fetchVars == <<retryTimes, pageCount, fetchPc, pageNum, retryAttempt, responses, sleeps,
               results, fetchLog>>
vars == <<dedupVars, feishuVars, envVars, fetchVars, stageVars, runVars, obsVars, schedVars>>

(***************************************************************************)
(* Bounds of the model.                                                    *)
(***************************************************************************)
MaxRuns == 2          \* invocations of run() explored
MaxBatch == 2         \* records handed to the dedup stage in one run
MaxTime == 1          \* clock readings 0..MaxTime
CacheSize == 2        \* config.filter.cacheSize of the explored process
MaxExecutions == 3    \* executeTask invocations that start a run
MaxSkips == 2         \* skipped triggers counted
MaxKeys == 4          \* distinct ids offered to MemoryCache.add key by key
MaxRetryTimes == 3    \* CRAWLER_RETRY_TIMES of the explored processes: 0..MaxRetryTimes
MaxPageCount == 3     \* pages asked of fetchMultiplePages: 1..MaxPageCount
MaxPage == 3          \* records parsed from the mixed page in one run

(***************************************************************************)
(* Program constants.                                                      *)
(***************************************************************************)
MAX_RETRIES == 3
RETRY_DELAY == 1000
maxWaitTime == 60000
pollInterval == 1000
dayRange == 7             \* config.filter.dayRange (FILTER_DAY_RANGE unset)
minTitleLength == 5
maxTitleLength == 200

(***************************************************************************)
(* Records.  A URL is origin + directory + file name (+ case) + extension  *)
(* + query; a title is its text plus the decoration normalizeTitle strips  *)
(* (case, whitespace, brackets, the particles 的/了).                      *)
(***************************************************************************)
Url(dir, name, upper, html, query) ==
    [origin |-> "zjj.sz.gov.cn", dir |-> dir, name |-> name, upper |-> upper,
     html |-> html, query |-> query]

\* bracketed: how many leading characters of the title stand within square
\* brackets (0: the title holds no bracket)
Title(text, decorated) == [text |-> text, decorated |-> decorated, bracketed |-> 0]

\* HtmlParser.generateId: the file name before .htm/.html, case preserved;
\* otherwise the first 16 alphanumerics of base64(url), which encode only
\* the leading bytes of the URL (scheme and host).
generateId(url) ==
    IF url.html THEN <<"file", url.name, url.upper>>
    ELSE <<"b64", url.origin, FALSE>>

\* DeduplicationFilter.normalizeTitle
normalizeTitle(title) == title.text

\* DeduplicationFilter.normalizeUrl: pathname, lower-cased, no query/fragment
normalizeUrl(url) == <<url.dir, url.name, url.html>>

\* DeduplicationFilter.generateDedupeKey
generateDedupeKey(n) == <<normalizeTitle(n.title), normalizeUrl(n.url)>>

\* publishDate strings: one `new Date` can read, published age days before
\* the run, or one it cannot read
PublishDate(age) == [valid |-> TRUE, age |-> age]
UnreadableDate == [valid |-> FALSE, age |-> 0]

\* HtmlParser.parseNoticeList builds the record; summary is absent
NoticeOf(title, url, publishDate, summary) ==
    [id |-> generateId(url), title |-> title, url |-> url,
     publishDate |-> publishDate, summary |-> summary]

Notice(title, url) == NoticeOf(title, url, PublishDate(0), <<>>)

\* The records the source page can yield in the explored runs.
NoticeCatalogue ==
    { Notice(Title("t1", FALSE), Url("tzgg", "post1", FALSE, TRUE, "")),
      Notice(Title("t1", TRUE),  Url("tzgg", "post1", TRUE,  TRUE, "")),
      Notice(Title("t2", FALSE), Url("tzgg", "post2", FALSE, TRUE, "")) }

NoticeIds == { n.id : n \in NoticeCatalogue }

Batches == UNION { [1..k -> NoticeCatalogue] : k \in 0..MaxBatch }

Ids(ns) == { ns[i].id : i \in 1..Len(ns) }

Range(ns) == { ns[i] : i \in 1..Len(ns) }

(***************************************************************************)
(* Strings that are searched: sequences of characters.                     *)
(***************************************************************************)
Capitals == <<"B", "D", "E", "H", "I", "L", "O", "R", "S", "T", "U">>
Smalls   == <<"b", "d", "e", "h", "i", "l", "o", "r", "s", "t", "u">>

\* String.prototype.toLowerCase
toLowerCase(str) ==
    [i \in 1..Len(str) |->
        IF \E k \in 1..Len(Capitals) : Capitals[k] = str[i]
        THEN Smalls[CHOOSE k \in 1..Len(Capitals) : Capitals[k] = str[i]]
        ELSE str[i]]

toUpperCase(str) ==
    [i \in 1..Len(str) |->
        IF \E k \in 1..Len(Smalls) : Smalls[k] = str[i]
        THEN Capitals[CHOOSE k \in 1..Len(Smalls) : Smalls[k] = str[i]]
        ELSE str[i]]

\* String.prototype.includes
includes(str, sub) ==
    \E i \in 0..(Len(str) - Len(sub)) : SubSeq(str, i + 1, i + Len(sub)) = sub

\* the words the catalogue's titles are written with
Word(text) ==
    CASE text = "t1" -> <<"h", "o", "u", "s", "e">>
      [] text = "t2" -> <<"b", "u", "i", "l", "d">>
      [] text = "t3" -> <<"o", "t", "h", "e", "r">>
      [] text = "t4" -> <<"b", "u", "i", "l", "d", " ", "h", "o", "u", "s", "e">>
      [] text = "t5" -> <<"t", "e", "s", "t", "s">>
      [] text = "t6" -> <<"b", "i", "d">>
      [] OTHER -> <<>>

\* notice.title as a string: a decorated title is written in capitals within
\* parentheses, a bracketed one has its leading characters within square
\* brackets
TitleText(title) ==
    LET w == IF title.decorated
             THEN <<"(">> \o toUpperCase(Word(title.text)) \o <<")">>
             ELSE Word(title.text)
    IN  IF title.bracketed > 0
        THEN <<"[">> \o SubSeq(w, 1, title.bracketed) \o <<"]">>
                 \o SubSeq(w, title.bracketed + 1, Len(w))
        ELSE w

\* `${notice.title} ${notice.summary || ''}`
titleAndSummary(n) == TitleText(n.title) \o <<" ">> \o n.summary

(***************************************************************************)
(* Pages other than the near-duplicate one.                                *)
(***************************************************************************)
\* A page mixing a record that passes every filter, one published before the
\* cutoff, one whose title holds an exclude keyword and one whose publishDate
\* cannot be read.
ValidNotice == NoticeOf(Title("t1", FALSE), Url("tzgg", "post1", FALSE, TRUE, ""),
                        PublishDate(0), <<>>)
OldNotice == NoticeOf(Title("t2", FALSE), Url("tzgg", "post2", FALSE, TRUE, ""),
                      PublishDate(dayRange + 1), <<>>)
ExcludedNotice == NoticeOf(Title("t5", FALSE), Url("tzgg", "post5", FALSE, TRUE, ""),
                           PublishDate(0), <<>>)
UndatedNotice == NoticeOf(Title("t3", FALSE), Url("tzgg", "post3", FALSE, TRUE, ""),
                          UnreadableDate, <<>>)

MixedCatalogue == {ValidNotice, OldNotice, ExcludedNotice, UndatedNotice}

\* A page of records of several categories: a keyword in the title in
\* capitals, a keyword in the summary only, the keywords of two rules, none.
ClassifiedCatalogue ==
    { NoticeOf(Title("t1", TRUE),  Url("tzgg", "post1", FALSE, TRUE, ""), PublishDate(0), <<>>),
      NoticeOf(Title("t3", FALSE), Url("tzgg", "post3", FALSE, TRUE, ""), PublishDate(0), <<>>),
      NoticeOf(Title("t3", FALSE), Url("tzgg", "post7", FALSE, TRUE, ""), PublishDate(0),
               Word("t2")),
      NoticeOf(Title("t4", FALSE), Url("tzgg", "post4", FALSE, TRUE, ""), PublishDate(0), <<>>) }

\* A page whose titles carry square brackets: around the first letters of
\* a word that is an exclude keyword once the brackets are gone, and around
\* the whole of a three-letter title.
SplitKeywordNotice ==
    NoticeOf([text |-> "t5", decorated |-> FALSE, bracketed |-> 2],
             Url("tzgg", "post8", FALSE, TRUE, ""), PublishDate(0), <<>>)
ShortTitleNotice ==
    NoticeOf([text |-> "t6", decorated |-> FALSE, bracketed |-> 3],
             Url("tzgg", "post6", FALSE, TRUE, ""), PublishDate(0), <<>>)

TooShortNotice ==
    NoticeOf(Title("t6", FALSE), Url("tzgg", "post7", FALSE, TRUE, ""), PublishDate(0), <<>>)

BracketCatalogue ==
    {ValidNotice, ExcludedNotice, SplitKeywordNotice, ShortTitleNotice, TooShortNotice}

\* A page of up to MaxPage records: two of different categories that pass
\* the filter and the validator, one the filter drops, one the validator
\* drops.
OrderCatalogue == {ValidNotice, SplitKeywordNotice, ExcludedNotice, TooShortNotice}

\* A page of records each of which one filter, two, or none would drop when
\* the include keyword is HOUSE and the exclude keyword TEST.
OtherNotice == NoticeOf(Title("t3", FALSE), Url("tzgg", "post3", FALSE, TRUE, ""),
                        PublishDate(0), <<>>)
HouseTestsNotice == NoticeOf(Title("t1", FALSE), Url("tzgg", "post9", FALSE, TRUE, ""),
                             PublishDate(0), Word("t5"))
OldHouseNotice == NoticeOf(Title("t1", FALSE), Url("tzgg", "post4", FALSE, TRUE, ""),
                           PublishDate(dayRange + 1), <<>>)

KeywordCatalogue ==
    {ValidNotice, OtherNotice, HouseTestsNotice, OldHouseNotice, ExcludedNotice}

\* A page linking two files of one name in two directories: generateId
\* gives both records the id post1, their Dedup Keys differ in the path.
TwinNotice == NoticeOf(Title("t1", FALSE), Url("gzdt", "post1", FALSE, TRUE, ""),
                       PublishDate(0), <<>>)

TwinCatalogue == {ValidNotice, TwinNotice, OtherNotice}

\* what HtmlParser.parseNoticeList can return for the page of the explored
\* process
Sources == {"page", "mixed", "classified", "bracketed", "keywords", "ordered", "twins"}

BatchesOf(src) ==
    CASE src = "page" -> Batches
      [] src = "mixed" -> UNION { [1..k -> MixedCatalogue] : k \in 1..MaxPage }
      [] src = "classified" -> UNION { [1..k -> ClassifiedCatalogue] : k \in 1..MaxBatch }
      [] src = "bracketed" -> UNION { [1..k -> BracketCatalogue] : k \in 1..MaxBatch }
      [] src = "keywords" -> UNION { [1..k -> KeywordCatalogue] : k \in 1..MaxBatch }
      [] src = "ordered" -> UNION { [1..k -> OrderCatalogue] : k \in 1..MaxPage }
      [] src = "twins" -> UNION { [1..k -> TwinCatalogue] : k \in 1..MaxBatch }

(***************************************************************************)
(* Memory tier: utils/cache.ts                                             *)
(***************************************************************************)
CacheIds(c) == { c[i].id : i \in 1..Len(c) }

\* MemoryCache.has
CacheHas(c, id) == id \in CacheIds(c)

RemoveAt(c, i) == SubSeq(c, 1, i - 1) \o SubSeq(c, i + 1, Len(c))

\* MemoryCache.removeOldest: the scan starts from oldestTimestamp = Date.now()
\* and keeps the first entry whose timestamp is strictly smaller than every
\* earlier candidate; nothing is deleted when no entry is older than now.
removeOldest(c, t) ==
    LET older == { i \in 1..Len(c) : c[i].timestamp < t }
    IN  IF older = {} THEN c
        ELSE LET best == CHOOSE i \in older :
                            \A j \in older :
                               \/ c[i].timestamp < c[j].timestamp
                               \/ (c[i].timestamp = c[j].timestamp /\ i <= j)
             IN  RemoveAt(c, best)

\* MemoryCache.add: Map.set keeps the position of a key that is already there
CacheAdd(c, id, t) ==
    LET c1 == IF Len(c) >= CacheSize THEN removeOldest(c, t) ELSE c
    IN  IF CacheHas(c1, id)
        THEN [i \in 1..Len(c1) |->
                 IF c1[i].id = id THEN [id |-> id, timestamp |-> t] ELSE c1[i]]
        ELSE Append(c1, [id |-> id, timestamp |-> t])

\* MemoryCache.addBatch
RECURSIVE addBatch(_, _, _)
addBatch(c, ids, t) ==
    IF ids = <<>> THEN c
    ELSE addBatch(CacheAdd(c, Head(ids), t), Tail(ids), t)

\* MemoryCache.clear
clear(c) == <<>>

\* the maxAge of MemoryCache.cleanup, 7 * 24 * 60 * 60 * 1000 ms, in days
maxAge == 7

\* cleanup's test of one entry: now - item.timestamp > maxAge
expired(e, t) == t - e.timestamp > maxAge

\* a sweep that only works on a full cache
cleanupWhenFull(c, t) ==
    IF Len(c) >= CacheSize THEN SelectSeq(c, LAMBDA e : ~expired(e, t)) ELSE c

\* MemoryCache.cleanup: deletes the expired entries while iterating the Map
cleanup(c, t) == SelectSeq(c, LAMBDA e : ~expired(e, t))

(***************************************************************************)
(* Durable tier: services/redisService.ts                                  *)
(***************************************************************************)
clientPresent == redisInit \in {"connecting", "connected"}

\* RedisService.isReady
isReady == redisEnabled /\ isConnected /\ clientPresent

\* RedisService.checkBatchSentStatus: the map id -> sent, given whether the
\* pipeline call goes through; every id is false when Redis is not ready or
\* the call throws.
checkBatchSentStatus(ids, callOk) ==
    [id \in ids |-> IF isReady /\ ids # {} /\ callOk THEN id \in redisKeys ELSE FALSE]

\* RedisService.markBatchAsSent: the keys Redis holds afterwards; the method
\* swallows every failure and returns normally.
markBatchAsSent(ids, callOk) ==
    IF isReady /\ ids # {} /\ callOk THEN redisKeys \cup ids ELSE redisKeys

(***************************************************************************)
(* filter/deduplication.ts                                                 *)
(***************************************************************************)
SeqIds(ns) == [i \in 1..Len(ns) |-> ns[i].id]

RECURSIVE dedupeScan(_, _)
dedupeScan(ns, seen) ==
    IF ns = <<>> THEN <<>>
    ELSE LET k == generateDedupeKey(Head(ns))
         IN  IF k \in seen THEN dedupeScan(Tail(ns), seen)
             ELSE <<Head(ns)>> \o dedupeScan(Tail(ns), seen \cup {k})

\* removeDuplicatesWithinBatch with the seen-set keyed by notice.id
RECURSIVE dedupeScanById(_, _)
dedupeScanById(ns, seen) ==
    IF ns = <<>> THEN <<>>
    ELSE IF Head(ns).id \in seen THEN dedupeScanById(Tail(ns), seen)
         ELSE <<Head(ns)>> \o dedupeScanById(Tail(ns), seen \cup {Head(ns).id})

removeDuplicatesWithinBatchById(ns) == dedupeScanById(ns, {})

\* DeduplicationFilter.removeDuplicatesWithinBatch
removeDuplicatesWithinBatch(ns) == dedupeScan(ns, {})

\* filterNewNotices with its cache.has test inverted
filterNewNoticesInverted(ns, c) == SelectSeq(ns, LAMBDA n : CacheHas(c, n.id))

\* DeduplicationFilter.filterNewNotices: keyed by notice.id
filterNewNotices(ns, c) == SelectSeq(ns, LAMBDA n : ~CacheHas(c, n.id))

\* DeduplicationFilter.filterNewNoticesWithRedis: keyed by notice.id
filterNewNoticesWithRedis(ns, callOk) ==
    IF ns = <<>> THEN ns
    ELSE LET sentStatus == checkBatchSentStatus(Ids(ns), callOk)
         IN  SelectSeq(ns, LAMBDA n : ~sentStatus[n.id])

\* DeduplicationFilter.updateCache
updateCache(c, ns, t) == IF ns = <<>> THEN c ELSE addBatch(c, SeqIds(ns), t)

\* the branch test of process / markBatchAsSent: isRedisAvailable && redisService
useRedis == isRedisAvailable

(***************************************************************************)
(* filter/dataFilter.ts                                                    *)
(***************************************************************************)
\* config.filter.keywords of the explored processes: FILTER_KEYWORDS unset,
\* or one keyword
KeywordLists == { <<>>, << <<"H", "O", "U", "S", "E">> >> }

\* config.filter.excludeKeywords of the explored process
excludeKeywords == << <<"T", "E", "S", "T">> >>

\* new Date(notice.publishDate): never throws; an unreadable string gives an
\* Invalid Date, whose time value is NaN
NewDate(publishDate) ==
    IF publishDate.valid THEN [nan |-> FALSE, age |-> publishDate.age]
    ELSE [nan |-> TRUE, age |-> 0]

\* publishDate >= cutoffDate, cutoffDate being dayRange days before now: a
\* comparison with NaN is false
notBeforeCutoff(date) == ~date.nan /\ date.age <= dayRange

\* DataFilter.filterByDate: the catch of the arrow function is never entered
filterByDate(ns) ==
    IF dayRange <= 0 THEN ns
    ELSE SelectSeq(ns, LAMBDA n : notBeforeCutoff(NewDate(n.publishDate)))

someKeywordIn(kws, n) ==
    \E k \in 1..Len(kws) : includes(toLowerCase(titleAndSummary(n)), toLowerCase(kws[k]))

\* an include filter without the test for an empty keyword list
filterByKeywordsOfAnyList(ns) == SelectSeq(ns, LAMBDA n : someKeywordIn(filterKeywords, n))

\* DataFilter.filterByKeywords
filterByKeywords(ns) ==
    IF Len(filterKeywords) = 0 THEN ns
    ELSE SelectSeq(ns, LAMBDA n : someKeywordIn(filterKeywords, n))

\* a filter that drops no record for its keywords
keepWhateverKeywords(ns) == ns

\* DataFilter.filterByExcludeKeywords
filterByExcludeKeywords(ns) ==
    IF Len(excludeKeywords) = 0 THEN ns
    ELSE SelectSeq(ns, LAMBDA n : ~someKeywordIn(excludeKeywords, n))

\* DataFilter.cleanTitle: square brackets go (the catalogue's titles hold no
\* runs of whitespace)
cleanTitle(title) == [title EXCEPT !.bracketed = 0]

RECURSIVE mergeSpaces(_)
mergeSpaces(str) ==
    IF Len(str) < 2 THEN str
    ELSE IF str[1] = " " /\ str[2] = " " THEN mergeSpaces(Tail(str))
         ELSE <<str[1]>> \o mergeSpaces(Tail(str))

RECURSIVE trimStart(_)
trimStart(str) ==
    IF str # <<>> /\ Head(str) = " " THEN trimStart(Tail(str)) ELSE str

RECURSIVE trimEnd(_)
trimEnd(str) ==
    IF str # <<>> /\ str[Len(str)] = " " THEN trimEnd(SubSeq(str, 1, Len(str) - 1))
    ELSE str

\* DataFilter.cleanSummary
cleanSummary(summary) == trimEnd(trimStart(mergeSpaces(summary)))

\* the test of cleanAndValidate: id, title and url present, url absolute,
\* title length within bounds
isValidNotice(n) ==
    /\ n.id[2] # ""
    /\ TitleText(n.title) # <<>>
    /\ n.url.origin # ""
    /\ Len(TitleText(n.title)) >= minTitleLength
    /\ Len(TitleText(n.title)) <= maxTitleLength

\* a validator that returns the records it keeps last to first
cleanAndValidateLastFirst(ns) ==
    LET kept == SelectSeq(ns, isValidNotice)
    IN  [i \in 1..Len(kept) |->
            [kept[Len(kept) + 1 - i]
                EXCEPT !.title = cleanTitle(kept[Len(kept) + 1 - i].title),
                       !.summary = cleanSummary(kept[Len(kept) + 1 - i].summary)]]

\* DataFilter.cleanAndValidate
cleanAndValidate(ns) ==
    LET kept == SelectSeq(ns, isValidNotice)
    IN  [i \in 1..Len(kept) |->
            [kept[i] EXCEPT !.title = cleanTitle(kept[i].title),
                            !.summary = cleanSummary(kept[i].summary)]]

\* a filter that validates and normalizes first and filters afterwards
dataFilterValidatingFirst(ns) ==
    LET out == filterByExcludeKeywords(filterByKeywords(filterByDate(cleanAndValidate(ns))))
    IN  [notices |-> out, totalCount |-> Len(ns), filteredCount |-> Len(out), newCount |-> 0]

\* DataFilter.filter
dataFilter(ns) ==
    LET out == cleanAndValidate(filterByExcludeKeywords(filterByKeywords(filterByDate(ns))))
    IN  [notices |-> out, totalCount |-> Len(ns), filteredCount |-> Len(out), newCount |-> 0]

(***************************************************************************)
(* services/categoryService.ts, notification/messageTemplate.ts            *)
(***************************************************************************)
CategoryRule(name, kws, priority) == [name |-> name, keywords |-> kws, priority |-> priority]

\* the rules of the explored process: two keyword rules and the default one
HousingRule == CategoryRule("housing", << <<"H", "o", "u", "s", "e">> >>, 1)
BuildingRule == CategoryRule("building", << <<"b", "u", "i", "l", "d">> >>, 2)
DefaultRule == CategoryRule("general", <<>>, 999)

\* categoryRules.json may list the rules in any order
RuleFiles ==
    { <<HousingRule, BuildingRule, DefaultRule>>,
      <<DefaultRule, BuildingRule, HousingRule>>,
      <<BuildingRule, DefaultRule, HousingRule>> }

\* categorizeNotices without the sort
keepFileOrder(rules) == rules

\* rules.sort((a, b) => a.priority - b.priority)
sortByPriority(rules) == SortSeq(rules, LAMBDA a, b : a.priority < b.priority)

\* the category returned when the loop over the rules ends
fallbackCategory == "other"

\* CategoryService.getNoticeCategory
RECURSIVE getNoticeCategory(_, _)
getNoticeCategory(n, rules) ==
    LET content == toLowerCase(TitleText(n.title)) \o <<" ">> \o toLowerCase(n.summary)
    IN  IF rules = <<>> THEN fallbackCategory
        ELSE LET rule == Head(rules)
             IN  IF Len(rule.keywords) = 0 THEN rule.name
                 ELSE IF \E k \in 1..Len(rule.keywords) :
                            includes(content, toLowerCase(rule.keywords[k]))
                      THEN rule.name
                      ELSE getNoticeCategory(n, Tail(rules))

\* the forEach of categorizeNotices: an object's keys keep insertion order
RECURSIVE groupByCategory(_, _, _)
groupByCategory(ns, rules, acc) ==
    IF ns = <<>> THEN acc
    ELSE LET c == getNoticeCategory(Head(ns), rules)
             acc1 == IF \E k \in 1..Len(acc) : acc[k][1] = c
                     THEN [k \in 1..Len(acc) |->
                             IF acc[k][1] = c THEN <<c, Append(acc[k][2], Head(ns))>>
                             ELSE acc[k]]
                     ELSE Append(acc, <<c, <<Head(ns)>> >>)
         IN  groupByCategory(Tail(ns), rules, acc1)

\* categorizeNotices putting every record under the first rule's name
groupUnderFirstRule(ns, rules) ==
    IF ns = <<>> THEN <<>> ELSE << <<rules[1].name, ns>> >>

\* CategoryService.categorizeNotices, given the sorted rules
categorizeNotices(ns, rules) == groupByCategory(ns, rules, <<>>)

\* a card listing the keys of categorized last to first
cardLastKeyFirst(cat) ==
    [k \in 1..Len(cat) |->
        [category |-> cat[Len(cat) + 1 - k][1], ids |-> SeqIds(cat[Len(cat) + 1 - k][2])]]

\* MessageTemplate.createCategorizedInteractiveCard: one section per key of
\* categorized, in Object.keys order, the records in array order
createCategorizedInteractiveCard(cat) ==
    [k \in 1..Len(cat) |-> [category |-> cat[k][1], ids |-> SeqIds(cat[k][2])]]

\* CrawlerService.pushMode
PushModes == {"single", "categorized", "by-category"}

(***************************************************************************)
(* Initial state: the process has loaded its modules.  The memory tier is  *)
(* empty, RedisService's constructor has called init() when Redis is       *)
(* enabled, the liveness probe is pending, FeishuConfig.validateConfig     *)
(* has accepted the configuration (at least one channel).                  *)
(***************************************************************************)
RunInit ==
    /\ cache = <<>>
    /\ now = 0
    /\ redisKeys = {}
    /\ redisEnabled \in BOOLEAN
    /\ redisInit = IF redisEnabled THEN "connecting" ELSE "disabled"
    /\ isConnected = FALSE
    /\ isRedisAvailable = FALSE
    /\ probeDone = FALSE
    /\ botConfigured \in BOOLEAN
    /\ webhookConfigured \in BOOLEAN
    /\ botConfigured \/ webhookConfigured
    /\ source \in Sources
    /\ filterKeywords \in KeywordLists
    /\ pushMode \in PushModes
    /\ recordDelivered \in BOOLEAN
    /\ categoryRules \in RuleFiles
    /\ allNotices = <<>>
    /\ categorized = <<>>
    /\ sections = <<>>
    /\ outcomes = <<>>
    /\ delivered = {}
    /\ errorNotice = "none"
    /\ runPc = "idle"
    /\ runCount = 0
    /\ notices = <<>>
    /\ deduped = <<>>
    /\ newNotices = <<>>
    /\ attempt = 1
    /\ botAttempts = 0
    /\ webhookAttempts = 0
    /\ delays = <<>>
    /\ pushResult = "none"
    /\ runResult = "none"
    /\ runError = "none"
    /\ counters = "none"
    /\ checkPath = "none"
    /\ cacheAtCheck = {}
    /\ redisAtCheck = {}
    /\ healthyAtCheck = FALSE
    /\ markPath = "none"
    /\ tierOp = "none"
    /\ removedCount = 0
    /\ retryTimes \in 0..MaxRetryTimes
    /\ pageCount \in 1..MaxPageCount
    /\ fetchPc = "idle"
    /\ pageNum = 0
    /\ retryAttempt = 0
    /\ responses = <<>>
    /\ sleeps = <<>>
    /\ results = <<>>
    /\ fetchLog = <<>>

(***************************************************************************)
(* Environment of the dedup tiers.                                         *)
(***************************************************************************)
\* Date.now() advances
Tick ==
    /\ now < MaxTime
    /\ now' = now + 1
    /\ UNCHANGED <<cache, redisKeys, redisEnabled, redisInit, isConnected,
                   isRedisAvailable, probeDone>>
    /\ UNCHANGED <<feishuVars, envVars, fetchVars, stageVars, runVars, obsVars, schedVars>>

\* client.on('connect'): also resolves the connect() awaited by init()
RedisConnect ==
    /\ clientPresent
    /\ ~isConnected
    /\ isConnected' = TRUE
    /\ redisInit' = "connected"
    /\ UNCHANGED <<cache, now, redisKeys, redisEnabled, isRedisAvailable, probeDone>>
    /\ UNCHANGED <<feishuVars, envVars, fetchVars, stageVars, runVars, obsVars, schedVars>>

\* client.on('error') / client.on('close')
RedisDrop ==
    /\ clientPresent
    /\ isConnected
    /\ isConnected' = FALSE
    /\ UNCHANGED <<cache, now, redisKeys, redisEnabled, redisInit, isRedisAvailable,
                   probeDone>>
    /\ UNCHANGED <<feishuVars, envVars, fetchVars, stageVars, runVars, obsVars, schedVars>>

\* init(): the first connect() rejects, the catch sets client = null
RedisInitFail ==
    /\ redisInit = "connecting"
    /\ redisInit' = "failed"
    /\ isConnected' = FALSE
    /\ UNCHANGED <<cache, now, redisKeys, redisEnabled, isRedisAvailable, probeDone>>
    /\ UNCHANGED <<feishuVars, envVars, fetchVars, stageVars, runVars, obsVars, schedVars>>

\* the TTL of a key runs out (setex key ttl)
RedisExpire ==
    /\ \E k \in redisKeys : redisKeys' = redisKeys \ {k}
    /\ UNCHANGED <<cache, now, redisEnabled, redisInit, isConnected, isRedisAvailable,
                   probeDone>>
    /\ UNCHANGED <<feishuVars, envVars, fetchVars, stageVars, runVars, obsVars, schedVars>>

\* RedisService.ping, given whether client.ping() answers PONG
ping(pong) == isReady /\ pong

\* the setTimeout(…, 2000) of deduplication.ts: sets the flag once, never clears it
ProbeFire ==
    /\ ~probeDone
    /\ probeDone' = TRUE
    /\ \E pong \in BOOLEAN :
          isRedisAvailable' = IF ping(pong) THEN TRUE ELSE isRedisAvailable
    /\ UNCHANGED <<cache, now, redisKeys, redisEnabled, redisInit, isConnected>>
    /\ UNCHANGED <<feishuVars, envVars, fetchVars, stageVars, runVars, obsVars, schedVars>>

(***************************************************************************)
(* WebScraper.fetchMultiplePages (crawler/scraper.ts): for each page,      *)
(* fetchNoticeListPage -> HttpClient.get -> requestWithRetry.              *)
(***************************************************************************)
\* CRAWLER_RETRY_TIMES unset: the default of config.crawler.retryTimes
DefaultRetryTimes == 3

\* retryConfig.delay and retryConfig.backoff of HttpClient
retryConfigDelay == 1000
retryConfigBackoff == 2

\* how a request ends: status 200 with a body, status 200 with an empty
\* body, or a rejection / another status
Responses == {"html", "empty", "fail"}

\* a loop that gives up one attempt early
isLastAttemptCountingFromOne(a, retries) == a + 1 >= retries

\* `attempt === this.retryConfig.retries` in the catch of requestWithRetry
isLastAttempt(a, retries) == a = retries

\* the delay before the retry that follows failed attempt a (from 0)
requestDelay(a) == retryConfigDelay * retryConfigBackoff^a

\* what fetchNoticeListPage ends with when its last request ended with r
pageOutcome(r) ==
    CASE r = "html" -> "html"
      [] r = "empty" -> "EMPTY_CONTENT"
      [] r = "fail" -> "NETWORK_ERROR"

\* fetchMultiplePages is called: results = [], i = 1
FetchStart ==
    /\ fetchPc = "idle"
    /\ fetchPc' = "request"
    /\ pageNum' = 1
    /\ retryAttempt' = 0
    /\ responses' = <<>>
    /\ sleeps' = <<>>
    /\ results' = <<>>
    /\ fetchLog' = <<>>
    /\ UNCHANGED <<retryTimes, pageCount>>
    /\ UNCHANGED <<dedupVars, feishuVars, envVars, stageVars, runVars, obsVars, schedVars>>

\* one iteration of the loop of requestWithRetry for page pageNum: the
\* request, then either the sleep before the next attempt, or the end of
\* fetchNoticeListPage (return of the body, EMPTY_CONTENT, or NETWORK_ERROR
\* once the last attempt failed) and the step of fetchMultiplePages to the
\* next page, whose catch only logs the error
Request ==
    /\ fetchPc = "request"
    /\ \E r \in Responses :
          IF r = "fail" /\ ~isLastAttempt(retryAttempt, retryTimes)
          THEN /\ responses' = Append(responses, r)
               /\ sleeps' = Append(sleeps, requestDelay(retryAttempt))
               /\ retryAttempt' = retryAttempt + 1
               /\ UNCHANGED <<fetchPc, pageNum, results, fetchLog>>
          ELSE /\ fetchLog' = Append(fetchLog, [page |-> pageNum,
                                                 responses |-> Append(responses, r),
                                                 sleeps |-> sleeps,
                                                 outcome |-> pageOutcome(r)])
               /\ results' = IF r = "html" THEN Append(results, pageNum) ELSE results
               /\ responses' = <<>>
               /\ sleeps' = <<>>
               /\ retryAttempt' = 0
               /\ IF pageNum < pageCount
                  THEN pageNum' = pageNum + 1 /\ UNCHANGED fetchPc
                  ELSE fetchPc' = "done" /\ UNCHANGED pageNum
    /\ UNCHANGED <<retryTimes, pageCount>>
    /\ UNCHANGED <<dedupVars, feishuVars, envVars, stageVars, runVars, obsVars, schedVars>>

FetchNext ==
    \/ FetchStart
    \/ Request

(***************************************************************************)
(* CrawlerService.run (services/crawlerService.ts).  Every await of the    *)
(* method is a point where the events above can interleave.                *)
(***************************************************************************)
\* steps 1-3 of run(): fetchPages and parsePages return a non-empty list of
\* records, filterNotices hands the FilterResult to the dedup stage
RunStart ==
    /\ runPc = "idle"
    /\ runCount < MaxRuns
    /\ \E b \in BatchesOf(source) :
          /\ Len(b) > 0
          /\ allNotices' = b
          /\ notices' = dataFilter(b).notices
    /\ runCount' = runCount + 1
    /\ runPc' = "dedup"
    /\ runResult' = "none"
    /\ runError' = "none"
    /\ counters' = "none"
    /\ errorNotice' = "none"
    /\ UNCHANGED <<deduped, newNotices, attempt, botAttempts, webhookAttempts, delays,
                   pushResult>>
    /\ UNCHANGED <<categoryRules, categorized, sections, outcomes, delivered>>
    /\ UNCHANGED <<dedupVars, feishuVars, envVars, fetchVars, obsVars, schedVars>>

\* fetchPages throws because no page was fetched, or parsePages throws
\* because the pages held no record
FetchErrors == {"no_page", "no_record"}

\* a failure result that counts the page it could not read
failureCountersCountingPage == [totalProcessed |-> 1, newNotices |-> 0, filteredOut |-> 0]

\* the counters of the result the catch of run() returns
failureCounters == [totalProcessed |-> 0, newNotices |-> 0, filteredOut |-> 0]

\* the counters of the result the try block of run() returns
successCounters(all, filtered, new) ==
    [totalProcessed |-> Len(all), newNotices |-> Len(new),
     filteredOut |-> Len(all) - Len(filtered)]

\* fetchPages throws, or parsePages finds no record and throws: run() enters
\* its catch
RunFetchFail ==
    /\ runPc = "idle"
    /\ runCount < MaxRuns
    /\ runCount' = runCount + 1
    /\ runPc' = "error"
    /\ runResult' = "none"
    /\ \E e \in FetchErrors : runError' = e
    /\ counters' = "none"
    /\ errorNotice' = "none"
    /\ UNCHANGED <<notices, deduped, newNotices, attempt, botAttempts,
                   webhookAttempts, delays, pushResult>>
    /\ UNCHANGED <<allNotices, categoryRules, categorized, sections, outcomes, delivered>>
    /\ UNCHANGED <<dedupVars, feishuVars, envVars, fetchVars, obsVars, schedVars>>

\* what run() does when the awaited pushError has settled with result e
\* instead of returning the failure result
resultAfterErrorEscalating(e) == IF e = "failed" THEN "thrown" ELSE "failure"

\* what run() does when the awaited pushError has settled with result e:
\* return { success: false, ... }
resultAfterError(e) == "failure"

\* the catch of run(): FeishuBot.pushError sends one message on the selected
\* channel without retry and turns every failure into a success: false
\* result; run() then returns its failure result
PushError ==
    /\ runPc = "error"
    /\ \E ok \in BOOLEAN :
          /\ errorNotice' = IF ok THEN "ok" ELSE "failed"
          /\ runResult' = resultAfterError(errorNotice')
    /\ counters' = failureCounters
    /\ UNCHANGED runError
    /\ runPc' = "idle"
    /\ UNCHANGED <<runCount, notices, deduped, newNotices, attempt, botAttempts,
                   webhookAttempts, delays, pushResult>>
    /\ UNCHANGED <<allNotices, categoryRules, categorized, sections, outcomes, delivered>>
    /\ UNCHANGED <<dedupVars, feishuVars, envVars, fetchVars, obsVars, schedVars>>

\* a run that calls pushNotices and markNoticesAsSent whatever process returned
AfterDedupAlwaysPushing(ns) == "push"

\* where run() goes after DeduplicationFilter.process returned ns
AfterDedup(ns) == IF Len(ns) > 0 THEN "push" ELSE "report"

\* DeduplicationFilter.process with isRedisAvailable false: intra-batch
\* dedup, filterNewNotices and updateCache run without an await
ProcessMemory ==
    /\ runPc = "dedup"
    /\ ~useRedis
    /\ LET d == removeDuplicatesWithinBatch(notices)
           nn == filterNewNotices(d, cache)
       IN  /\ deduped' = d
           /\ newNotices' = nn
           /\ cache' = updateCache(cache, nn, now)
           /\ runPc' = AfterDedup(nn)
    /\ checkPath' = "memory"
    /\ cacheAtCheck' = CacheIds(cache)
    /\ redisAtCheck' = redisKeys
    /\ healthyAtCheck' = (isRedisAvailable /\ isReady)
    /\ UNCHANGED <<now, redisKeys, redisEnabled, redisInit, isConnected,
                   isRedisAvailable, probeDone>>
    /\ UNCHANGED <<runCount, notices, attempt, botAttempts, webhookAttempts, delays,
                   pushResult, runResult, runError, counters, markPath, tierOp, removedCount>>
    /\ UNCHANGED <<feishuVars, envVars, fetchVars, stageVars, schedVars>>

\* DeduplicationFilter.process with isRedisAvailable true, up to the return
\* of the awaited filterNewNoticesWithRedis
ProcessRedisCheck ==
    /\ runPc = "dedup"
    /\ useRedis
    /\ \E callOk \in BOOLEAN :
          LET d == removeDuplicatesWithinBatch(notices)
          IN  /\ deduped' = d
              /\ newNotices' = filterNewNoticesWithRedis(d, callOk)
              /\ checkPath' = IF isReady /\ callOk THEN "redis" ELSE "redis_unanswered"
    /\ runPc' = "redisUpdate"
    /\ cacheAtCheck' = CacheIds(cache)
    /\ redisAtCheck' = redisKeys
    /\ healthyAtCheck' = (isRedisAvailable /\ isReady)
    /\ UNCHANGED <<runCount, notices, attempt, botAttempts, webhookAttempts, delays,
                   pushResult, runResult, runError, counters, markPath, tierOp, removedCount>>
    /\ UNCHANGED <<dedupVars, feishuVars, envVars, fetchVars, stageVars, schedVars>>

\* DeduplicationFilter.updateRedisCache, given whether the pipeline goes through
updateRedisCache(ns, callOk) ==
    IF ns = <<>> THEN redisKeys ELSE markBatchAsSent(Ids(ns), callOk)

\* the rest of process: the awaited updateRedisCache
ProcessRedisUpdate ==
    /\ runPc = "redisUpdate"
    /\ \E callOk \in BOOLEAN : redisKeys' = updateRedisCache(newNotices, callOk)
    /\ runPc' = AfterDedup(newNotices)
    /\ UNCHANGED <<cache, now, redisEnabled, redisInit, isConnected, isRedisAvailable,
                   probeDone>>
    /\ UNCHANGED <<runCount, notices, deduped, newNotices, attempt, botAttempts,
                   webhookAttempts, delays, pushResult, runResult, runError, counters>>
    /\ UNCHANGED <<feishuVars, envVars, fetchVars, stageVars, obsVars, schedVars>>

(***************************************************************************)
(* FeishuBot.pushNotices (notification/feishuBot.ts)                       *)
(***************************************************************************)
\* delivered once the records with these ids were reported delivered
Delivered(ids) == IF recordDelivered THEN delivered \cup ids ELSE delivered

\* shouldUseBotApi giving way to a configured webhook
shouldUseBotApiUnlessWebhook == botConfigured /\ ~webhookConfigured

\* FeishuConfig.shouldUseBotApi / shouldUseWebhook
shouldUseBotApi == botConfigured
shouldUseWebhook == webhookConfigured

\* pushNotices -> pushViaBotApi: one client.im.message.create call; a failure
\* is rethrown to the catch of pushNotices, which returns success: false
PushViaBotApi ==
    /\ runPc = "push"
    /\ pushMode = "single"
    /\ shouldUseBotApi
    /\ botAttempts' = botAttempts + 1
    /\ \E ok \in BOOLEAN :
          /\ pushResult' = IF ok THEN "ok" ELSE "failed"
          /\ delivered' = IF ok THEN Delivered(Ids(newNotices)) ELSE delivered
    /\ runPc' = "mark"
    /\ UNCHANGED <<runCount, notices, deduped, newNotices, attempt, webhookAttempts,
                   delays, runResult, runError, counters>>
    /\ UNCHANGED <<allNotices, categoryRules, categorized, sections, outcomes, errorNotice>>
    /\ UNCHANGED <<dedupVars, feishuVars, envVars, fetchVars, obsVars, schedVars>>

\* a sleep that doubles with every failed attempt
retryDelayDoubling(a) == RETRY_DELAY * 2^a

\* the sleep after failed attempt number a of pushViaWebhook
retryDelay(a) == RETRY_DELAY * a

\* pushNotices -> pushViaWebhook: one iteration of the for loop (axios.post,
\* then return, or sleep and go on, or leave the loop and throw)
PushViaWebhook ==
    /\ runPc = "push"
    /\ pushMode = "single"
    /\ ~shouldUseBotApi
    /\ shouldUseWebhook
    /\ attempt <= MAX_RETRIES
    /\ webhookAttempts' = webhookAttempts + 1
    /\ \E ok \in BOOLEAN :
          IF ok
          THEN /\ pushResult' = "ok"
               /\ delivered' = Delivered(Ids(newNotices))
               /\ runPc' = "mark"
               /\ UNCHANGED <<attempt, delays>>
          ELSE IF attempt < MAX_RETRIES
               THEN /\ delays' = Append(delays, retryDelay(attempt))
                    /\ attempt' = attempt + 1
                    /\ UNCHANGED <<pushResult, runPc, delivered>>
               ELSE /\ pushResult' = "failed"
                    /\ runPc' = "mark"
                    /\ UNCHANGED <<attempt, delays, delivered>>
    /\ UNCHANGED <<runCount, notices, deduped, newNotices, botAttempts, runResult, runError, counters>>
    /\ UNCHANGED <<allNotices, categoryRules, categorized, sections, outcomes, errorNotice>>
    /\ UNCHANGED <<dedupVars, feishuVars, envVars, fetchVars, obsVars, schedVars>>

\* ids of the records of the category payloads whose outcome is a success
deliveredOf(cat, oks) ==
    UNION { IF oks[k] THEN Ids(cat[k][2]) ELSE {} : k \in 1..Len(cat) }

\* pushNotices in mode 'categorized' -> FeishuBot.pushCategorizedNotices:
\* categorizeNotices sorts the rules and groups the records, the card of
\* createCategorizedInteractiveCard is sent as one payload
PushCategorized ==
    /\ runPc = "push"
    /\ pushMode = "categorized"
    /\ categoryRules' = sortByPriority(categoryRules)
    /\ categorized' = categorizeNotices(newNotices, categoryRules')
    /\ sections' = createCategorizedInteractiveCard(categorized')
    /\ \E ok \in BOOLEAN :
          /\ pushResult' = IF ok THEN "ok" ELSE "failed"
          /\ delivered' = IF ok THEN Delivered(Ids(newNotices)) ELSE delivered
    /\ runPc' = "mark"
    /\ UNCHANGED <<runCount, notices, deduped, newNotices, attempt, botAttempts,
                   webhookAttempts, delays, runResult, runError, counters>>
    /\ UNCHANGED <<allNotices, outcomes, errorNotice>>
    /\ UNCHANGED <<dedupVars, feishuVars, envVars, fetchVars, obsVars, schedVars>>

\* pushNotices in mode 'by-category' -> FeishuBot.pushNoticesByCategory:
\* one payload per category of categorizeNotices, each delivered on its own,
\* one PushResult per payload
PushByCategory ==
    /\ runPc = "push"
    /\ pushMode = "by-category"
    /\ categoryRules' = sortByPriority(categoryRules)
    /\ categorized' = categorizeNotices(newNotices, categoryRules')
    /\ \E oks \in [1..Len(categorized') -> BOOLEAN] :
          /\ outcomes' = [k \in 1..Len(categorized') |->
                             [category |-> categorized'[k][1], success |-> oks[k]]]
          /\ delivered' = Delivered(deliveredOf(categorized', oks))
    /\ pushResult' = "array"
    /\ runPc' = "mark"
    /\ UNCHANGED <<runCount, notices, deduped, newNotices, attempt, botAttempts,
                   webhookAttempts, delays, runResult, runError, counters>>
    /\ UNCHANGED <<allNotices, sections, errorNotice>>
    /\ UNCHANGED <<dedupVars, feishuVars, envVars, fetchVars, obsVars, schedVars>>

\* CrawlerService.markNoticesAsSent -> DeduplicationFilter.markBatchAsSent:
\* called after pushNotices whatever its result
MarkNoticesAsSent ==
    /\ runPc = "mark"
    /\ IF useRedis
       THEN /\ \E callOk \in BOOLEAN :
                  /\ redisKeys' = markBatchAsSent(Ids(newNotices), callOk)
                  /\ markPath' = IF ~isReady THEN "redis_not_ready"
                                  ELSE IF callOk THEN "redis" ELSE "redis_error"
            /\ UNCHANGED cache
       ELSE /\ cache' = addBatch(cache, SeqIds(newNotices), now)
            /\ markPath' = "memory"
            /\ UNCHANGED redisKeys
    /\ runPc' = "report"
    /\ UNCHANGED <<now, redisEnabled, redisInit, isConnected, isRedisAvailable, probeDone>>
    /\ UNCHANGED <<runCount, notices, deduped, newNotices, attempt, botAttempts,
                   webhookAttempts, delays, pushResult, runResult, runError, counters>>
    /\ UNCHANGED <<checkPath, cacheAtCheck, redisAtCheck, healthyAtCheck, tierOp, removedCount>>
    /\ UNCHANGED <<feishuVars, envVars, fetchVars, stageVars, schedVars>>

\* a run result whose success follows the delivery outcome
resultFollowingPush(pr) == IF pr = "failed" THEN "failure" ELSE "success"

\* the result object of run(): success: true, pushResult carried as it is
resultOf(pr) == "success"

\* step 6 of run(): updateStats and return the result; the locals of the
\* invocation are gone
RunFinish ==
    /\ runPc = "report"
    /\ runResult' = resultOf(pushResult)
    /\ counters' = successCounters(allNotices, notices, newNotices)
    /\ UNCHANGED runError
    /\ runPc' = "idle"
    /\ notices' = <<>>
    /\ deduped' = <<>>
    /\ newNotices' = <<>>
    /\ attempt' = 1
    /\ botAttempts' = 0
    /\ webhookAttempts' = 0
    /\ delays' = <<>>
    /\ pushResult' = "none"
    /\ checkPath' = "none"
    /\ cacheAtCheck' = {}
    /\ redisAtCheck' = {}
    /\ healthyAtCheck' = FALSE
    /\ markPath' = "none"
    /\ UNCHANGED <<tierOp, removedCount>>
    /\ allNotices' = <<>>
    /\ categorized' = <<>>
    /\ sections' = <<>>
    /\ outcomes' = <<>>
    /\ UNCHANGED <<runCount, categoryRules, delivered, errorNotice>>
    /\ UNCHANGED <<dedupVars, feishuVars, envVars, fetchVars, schedVars>>

Next ==
    \/ Tick
    \/ RedisConnect
    \/ RedisDrop
    \/ RedisInitFail
    \/ RedisExpire
    \/ ProbeFire
    \/ RunStart
    \/ RunFetchFail
    \/ PushError
    \/ ProcessMemory
    \/ ProcessRedisCheck
    \/ ProcessRedisUpdate
    \/ PushViaBotApi
    \/ PushViaWebhook
    \/ MarkNoticesAsSent
    \/ RunFinish

(***************************************************************************)
(* Application and CronJobManager (app.ts).  A run is seen here only as a  *)
(* call of crawlerService.run() that has started and may return.           *)
(***************************************************************************)
\* SCHEDULE_CRON unset: the default of config.schedule.cronExpression
DefaultCron == "0 */1 * * *"

\* the expressions explored: two that cron.validate accepts and one it rejects
ValidExpressions == {DefaultCron, "0 9 * * *"}
Expressions == ValidExpressions \cup {"every hour"}

\* cron.validate of node-cron
validate(e) == e \in ValidExpressions

SchedInit ==
    /\ appPc = "starting"
    /\ runOnceMode \in BOOLEAN
    /\ scheduleEnabled \in BOOLEAN
    /\ devMode \in BOOLEAN
    /\ devTimer = "none"
    /\ task = FALSE
    /\ isRunning = FALSE
    /\ executionCount = 0
    /\ isShuttingDown = FALSE
    /\ shutdownPc = "none"
    /\ waitTime = 0
    /\ exited = FALSE
    /\ inFlight = 0
    /\ skipped = 0
    /\ startedInShutdown = FALSE
    /\ taskOutcome = "none"
    /\ taskErrorNotice = "none"
    /\ cronExpression \in Expressions
    /\ cronTimers = <<>>
    /\ lastCall = [op |-> "none", arg |-> "none", threw |-> FALSE]

(***************************************************************************)
(* The public methods of CronJobManager that change the schedule.  Each is *)
(* an operator on the fields it reads and writes: task (this.task !==      *)
(* null), timers (the node-cron tasks started and not stopped), enabled    *)
(* and expression (config.schedule), threw (the call ended by throwing).   *)
(***************************************************************************)
Manager == [task |-> task, timers |-> cronTimers, enabled |-> scheduleEnabled,
            expression |-> cronExpression, threw |-> FALSE]

\* a start() that schedules a task whether or not one is scheduled
startWithoutTaskTest(m) ==
    IF ~m.enabled THEN m
    ELSE IF ~validate(m.expression) THEN [m EXCEPT !.threw = TRUE]
    ELSE [m EXCEPT !.task = TRUE, !.timers = Append(m.timers, m.expression)]

\* CronJobManager.start
start(m) ==
    IF m.task THEN m
    ELSE IF ~m.enabled THEN m
    ELSE IF ~validate(m.expression) THEN [m EXCEPT !.threw = TRUE]
    ELSE [m EXCEPT !.task = TRUE, !.timers = Append(m.timers, m.expression)]

\* CronJobManager.stop: this.task is the task created last
stop(m) ==
    IF m.task
    THEN [m EXCEPT !.task = FALSE, !.timers = SubSeq(m.timers, 1, Len(m.timers) - 1)]
    ELSE m

\* CronJobManager.restart
restart(m) == start(stop(m))

\* CronJobManager.updateSchedule
updateSchedule(m, e) ==
    IF ~validate(e) THEN [m EXCEPT !.threw = TRUE]
    ELSE LET c == [m EXCEPT !.expression = e]
         IN  IF c.task THEN restart(c) ELSE c

\* CronJobManager.setEnabled
setEnabled(m, enabled) ==
    LET c == [m EXCEPT !.enabled = enabled]
    IN  IF enabled /\ ~c.task THEN start(c)
        ELSE IF ~enabled /\ c.task THEN stop(c)
        ELSE c

\* Application.startServices -> startScheduler -> CronJobManager.start
StartScheduler ==
    /\ appPc = "starting"
    /\ ~runOnceMode
    /\ ~exited
    /\ appPc' = "running"
    /\ ~start(Manager).threw
    /\ task' = start(Manager).task
    /\ cronTimers' = start(Manager).timers
    /\ lastCall' = [op |-> "start", arg |-> "none", threw |-> FALSE]
    /\ devTimer' = IF devMode THEN "pending" ELSE "none"
    /\ UNCHANGED <<runOnceMode, scheduleEnabled, devMode, isRunning, executionCount,
                   isShuttingDown, shutdownPc, waitTime, exited, inFlight, skipped,
                   startedInShutdown>>
    /\ UNCHANGED <<dedupVars, feishuVars, envVars, fetchVars, stageVars, runVars, obsVars>>
    /\ UNCHANGED <<taskOutcome, taskErrorNotice, cronExpression>>

\* Application.startServices -> runOnce: calls crawlerService.run() directly
StartRunOnce ==
    /\ appPc = "starting"
    /\ runOnceMode
    /\ ~exited
    /\ appPc' = "runonce"
    /\ inFlight' = inFlight + 1
    /\ startedInShutdown' = (startedInShutdown \/ isShuttingDown)
    /\ UNCHANGED <<runOnceMode, scheduleEnabled, devMode, devTimer, task, isRunning,
                   executionCount, isShuttingDown, shutdownPc, waitTime, exited, skipped>>
    /\ UNCHANGED <<dedupVars, feishuVars, envVars, fetchVars, stageVars, runVars, obsVars>>
    /\ UNCHANGED <<taskOutcome, taskErrorNotice, cronVars>>

\* Application.runOnce after the await: process.exit(1) on a failure result
RunOnceReturn ==
    /\ appPc = "runonce"
    /\ ~exited
    /\ inFlight' = inFlight - 1
    /\ appPc' = "running"
    /\ \E success \in BOOLEAN : exited' = ~success
    /\ UNCHANGED <<runOnceMode, scheduleEnabled, devMode, devTimer, task, isRunning,
                   executionCount, isShuttingDown, shutdownPc, waitTime, skipped,
                   startedInShutdown>>
    /\ UNCHANGED <<dedupVars, feishuVars, envVars, fetchVars, stageVars, runVars, obsVars>>
    /\ UNCHANGED <<taskOutcome, taskErrorNotice, cronVars>>

\* executeTask without its isRunning test
TaskBusyNoGuard == FALSE

\* the guard of CronJobManager.executeTask
TaskBusy == isRunning

\* CronJobManager.executeTask up to the await of crawlerService.run()
executeTask ==
    IF TaskBusy
    THEN /\ skipped' = IF skipped < MaxSkips THEN skipped + 1 ELSE skipped
         /\ UNCHANGED <<isRunning, executionCount, inFlight, startedInShutdown>>
    ELSE /\ isRunning' = TRUE
         /\ executionCount' = executionCount + 1
         /\ inFlight' = inFlight + 1
         /\ startedInShutdown' = (startedInShutdown \/ isShuttingDown)
         /\ UNCHANGED skipped

\* the callback of cron.schedule
CronTick ==
    /\ task
    /\ ~exited
    /\ executionCount < MaxExecutions
    /\ executeTask
    /\ UNCHANGED <<appPc, runOnceMode, scheduleEnabled, devMode, devTimer, task,
                   isShuttingDown, shutdownPc, waitTime, exited>>
    /\ UNCHANGED <<dedupVars, feishuVars, envVars, fetchVars, stageVars, runVars, obsVars>>
    /\ UNCHANGED <<taskOutcome, taskErrorNotice, cronVars>>

\* the setTimeout of startScheduler: CronJobManager.executeOnce
ExecuteOnce ==
    /\ devTimer = "pending"
    /\ ~exited
    /\ executionCount < MaxExecutions
    /\ devTimer' = "fired"
    /\ executeTask
    /\ UNCHANGED <<appPc, runOnceMode, scheduleEnabled, devMode, task, isShuttingDown,
                   shutdownPc, waitTime, exited>>
    /\ UNCHANGED <<dedupVars, feishuVars, envVars, fetchVars, stageVars, runVars, obsVars>>
    /\ UNCHANGED <<taskOutcome, taskErrorNotice, cronVars>>

\* the ways the try block of executeTask ends: run() resolves with a success
\* result, resolves with a failure result, or an exception reaches the catch
TaskOutcomes == {"success", "failure", "thrown"}

\* a finally block that is skipped when the try block does not end normally
isRunningClearedOnReturn(outcome) == outcome = "thrown"

\* the finally block of executeTask: this.isRunning = false
isRunningAfterTask(outcome) == FALSE

\* a catch that also reports the failure result run() resolved with
catchNoticeOnFailure(outcome) == IF outcome = "success" THEN "none" ELSE "attempted"

\* the catch of executeTask: FeishuBot.pushError is called, in a try/catch of
\* its own, when an exception reached the catch
catchNotice(outcome) == IF outcome = "thrown" THEN "attempted" ELSE "none"

\* executeTask after the await: crawlerService.run() returned or threw (the
\* catch reports the error), the finally block clears the flag
TaskReturn ==
    /\ appPc = "running"
    /\ inFlight > 0
    /\ ~exited
    /\ \E outcome \in TaskOutcomes :
          /\ taskOutcome' = outcome
          /\ taskErrorNotice' = catchNotice(outcome)
          /\ isRunning' = isRunningAfterTask(outcome)
    /\ inFlight' = inFlight - 1
    /\ UNCHANGED <<appPc, runOnceMode, scheduleEnabled, devMode, devTimer, task,
                   executionCount, isShuttingDown, shutdownPc, waitTime, exited, skipped,
                   startedInShutdown>>
    /\ UNCHANGED <<dedupVars, feishuVars, envVars, fetchVars, stageVars, runVars, obsVars, cronVars>>

\* the callback of cron.schedule when the run of the invocation is explored
\* with it: executeTask up to `new CrawlerService()`; the promise of run()
\* and the error notifications belong to the invocation that starts here
InvokeTask ==
    /\ task
    /\ ~exited
    /\ executionCount < MaxRuns
    /\ executeTask
    /\ IF TaskBusy
       THEN UNCHANGED <<taskOutcome, taskErrorNotice, runResult, errorNotice>>
       ELSE /\ taskOutcome' = "none"
            /\ taskErrorNotice' = "none"
            /\ runResult' = "none"
            /\ errorNotice' = "none"
    /\ UNCHANGED <<appPc, runOnceMode, scheduleEnabled, devMode, devTimer, task,
                   isShuttingDown, shutdownPc, waitTime, exited, cronVars>>
    /\ UNCHANGED <<runPc, runCount, notices, deduped, newNotices, attempt, botAttempts,
                   webhookAttempts, delays, pushResult, runError, counters>>
    /\ UNCHANGED <<allNotices, categoryRules, categorized, sections, outcomes, delivered>>
    /\ UNCHANGED <<dedupVars, feishuVars, envVars, fetchVars, obsVars>>

\* the invocation is inside its try block and has not called run() yet
BeforeRun == isRunning /\ taskOutcome = "none" /\ runPc = "idle" /\ runResult = "none"

\* the try block of executeTask throws outside run() (new CrawlerService()
\* or a logger call): catch, then finally
InvokedThrow ==
    /\ BeforeRun
    /\ inFlight > 0
    /\ taskOutcome' = "thrown"
    /\ taskErrorNotice' = catchNotice("thrown")
    /\ isRunning' = isRunningAfterTask("thrown")
    /\ inFlight' = inFlight - 1
    /\ UNCHANGED <<appPc, runOnceMode, scheduleEnabled, devMode, devTimer, task,
                   executionCount, isShuttingDown, shutdownPc, waitTime, exited, skipped,
                   startedInShutdown>>
    /\ UNCHANGED <<dedupVars, feishuVars, envVars, fetchVars, stageVars, runVars, obsVars, cronVars>>

\* executeTask after the await: the promise of run() has settled with
\* runResult; catch when it was rejected, then finally
InvokedSettle ==
    /\ isRunning
    /\ inFlight > 0
    /\ taskOutcome = "none"
    /\ runPc = "idle"
    /\ runResult # "none"
    /\ taskOutcome' = runResult
    /\ taskErrorNotice' = catchNotice(runResult)
    /\ isRunning' = isRunningAfterTask(runResult)
    /\ inFlight' = inFlight - 1
    /\ UNCHANGED <<appPc, runOnceMode, scheduleEnabled, devMode, devTimer, task,
                   executionCount, isShuttingDown, shutdownPc, waitTime, exited, skipped,
                   startedInShutdown>>
    /\ UNCHANGED <<dedupVars, feishuVars, envVars, fetchVars, stageVars, runVars, obsVars, cronVars>>

\* the call op(arg) from outside leaves the manager as m
Called(op, arg, m) ==
    /\ task' = m.task
    /\ cronTimers' = m.timers
    /\ scheduleEnabled' = m.enabled
    /\ cronExpression' = m.expression
    /\ lastCall' = [op |-> op, arg |-> arg, threw |-> m.threw]
    /\ UNCHANGED <<appPc, runOnceMode, devMode, devTimer, isRunning, executionCount,
                   isShuttingDown, shutdownPc, waitTime, exited, inFlight, skipped,
                   startedInShutdown, taskOutcome, taskErrorNotice>>
    /\ UNCHANGED <<dedupVars, feishuVars, envVars, fetchVars, stageVars, runVars, obsVars>>

ManagerNext ==
    \/ StartScheduler
    \/ CronTick
    \/ TaskReturn
    \/ Called("start", "none", start(Manager))
    \/ Called("stop", "none", stop(Manager))
    \/ Called("restart", "none", restart(Manager))
    \/ \E e \in Expressions : Called("updateSchedule", e, updateSchedule(Manager, e))
    \/ \E enabled \in BOOLEAN :
          Called("setEnabled", IF enabled THEN "true" ELSE "false",
                 setEnabled(Manager, enabled))

\* the condition of the while loop of CronJobManager.shutdown
ShutdownWaits(running, w) == running /\ w < maxWaitTime

\* the wait loop without its waitTime += 1000
NextWaitTimeStuck(w) == w

\* waitTime += 1000
NextWaitTime(w) == w + pollInterval

\* a signal handler calls Application.shutdown, which runs synchronously into
\* CronJobManager.shutdown: with no task running, stop() and process.exit
\* follow at once; otherwise the first one-second sleep starts
RequestShutdown ==
    /\ ~isShuttingDown
    /\ ~exited
    /\ isShuttingDown' = TRUE
    /\ waitTime' = 0
    /\ IF isRunning
       THEN /\ shutdownPc' = "waiting"
            /\ UNCHANGED <<task, cronTimers, exited>>
       ELSE /\ shutdownPc' = "done"
            /\ task' = FALSE
            /\ cronTimers' = <<>>
            /\ exited' = TRUE
    /\ UNCHANGED <<appPc, runOnceMode, scheduleEnabled, devMode, devTimer, isRunning,
                   executionCount, inFlight, skipped, startedInShutdown>>
    /\ UNCHANGED <<dedupVars, feishuVars, envVars, fetchVars, stageVars, runVars, obsVars>>
    /\ UNCHANGED <<taskOutcome, taskErrorNotice, cronExpression, lastCall>>

\* a one-second sleep of the wait loop ends: waitTime += 1000, the loop
\* condition is tested again; leaving the loop runs stop(), cache.destroy()
\* and process.exit
ShutdownPoll ==
    /\ shutdownPc = "waiting"
    /\ ~exited
    /\ waitTime' = NextWaitTime(waitTime)
    /\ IF ShutdownWaits(isRunning, waitTime')
       THEN UNCHANGED <<shutdownPc, task, cronTimers, exited>>
       ELSE /\ shutdownPc' = "done"
            /\ task' = FALSE
            /\ cronTimers' = <<>>
            /\ exited' = TRUE
    /\ UNCHANGED <<appPc, runOnceMode, scheduleEnabled, devMode, devTimer, isRunning,
                   executionCount, isShuttingDown, inFlight, skipped, startedInShutdown>>
    /\ UNCHANGED <<dedupVars, feishuVars, envVars, fetchVars, stageVars, runVars, obsVars>>
    /\ UNCHANGED <<taskOutcome, taskErrorNotice, cronExpression, lastCall>>

SchedNext ==
    \/ StartScheduler
    \/ StartRunOnce
    \/ RunOnceReturn
    \/ CronTick
    \/ ExecuteOnce
    \/ TaskReturn
    \/ RequestShutdown
    \/ ShutdownPoll

(***************************************************************************)
(* Specifications.  Spec explores the pipeline of one process started in   *)
(* scheduler mode; SchedSpec explores the scheduler of a process with one  *)
(* fixed dedup/Feishu configuration.  FairSchedSpec adds what Node's event *)
(* loop guarantees: the setTimeout of the shutdown wait loop fires.        *)
(***************************************************************************)
\* a process in scheduler mode
SchedulerModeInit ==
    /\ RunInit
    /\ SchedInit
    /\ cronExpression = DefaultCron
    /\ retryTimes = DefaultRetryTimes
    /\ pageCount = 1
    /\ ~runOnceMode /\ scheduleEnabled /\ ~devMode

\* the page yields the near-duplicate records of NoticeCatalogue, the pushes
\* are made in mode 'single'
Init ==
    /\ SchedulerModeInit
    /\ source = "page"
    /\ filterKeywords = <<>>
    /\ pushMode = "single"
    /\ categoryRules = <<HousingRule, BuildingRule, DefaultRule>>
    /\ ~recordDelivered

SchedSpecInit ==
    /\ RunInit
    /\ source = "page"
    /\ filterKeywords = <<>>
    /\ pushMode = "single"
    /\ ~recordDelivered
    /\ categoryRules = <<HousingRule, BuildingRule, DefaultRule>>
    /\ redisEnabled /\ botConfigured /\ ~webhookConfigured
    /\ SchedInit
    /\ cronExpression = DefaultCron
    /\ retryTimes = DefaultRetryTimes
    /\ pageCount = 1

Spec == Init /\ [][Next]_vars

SchedSpec == SchedSpecInit /\ [][SchedNext]_vars

FairSchedSpec == SchedSpec /\ WF_vars(ShutdownPoll)

\* REDIS_ENABLED=false: RedisService never creates a client, the probe's
\* ping answers false and every run takes the memory branch of process()
MemoryOnlyInit == Init /\ ~redisEnabled

MemoryOnlyNext ==
    \/ Tick
    \/ ProbeFire
    \/ RunStart
    \/ RunFetchFail
    \/ PushError
    \/ ProcessMemory
    \/ PushViaBotApi
    \/ PushViaWebhook
    \/ MarkNoticesAsSent
    \/ RunFinish

MemoryOnlySpec == MemoryOnlyInit /\ [][MemoryOnlyNext]_vars

\* REDIS_ENABLED=true with the Bot API as the only channel, the runs taking
\* place within one reading of Date.now(): both tiers, connection loss, key
\* expiry and the probe's two outcomes are explored
TwoTierInit == Init /\ redisEnabled /\ botConfigured /\ ~webhookConfigured

TwoTierNext ==
    \/ RedisConnect
    \/ RedisDrop
    \/ RedisInitFail
    \/ RedisExpire
    \/ ProbeFire
    \/ RunStart
    \/ RunFetchFail
    \/ PushError
    \/ ProcessMemory
    \/ ProcessRedisCheck
    \/ ProcessRedisUpdate
    \/ PushViaBotApi
    \/ MarkNoticesAsSent
    \/ RunFinish

TwoTierSpec == TwoTierInit /\ [][TwoTierNext]_vars

\* both tiers as in TwoTierSpec, the records reported delivered being recorded
DeliveryInit ==
    /\ SchedulerModeInit
    /\ source = "page"
    /\ filterKeywords = <<>>
    /\ pushMode = "single"
    /\ categoryRules = <<HousingRule, BuildingRule, DefaultRule>>
    /\ recordDelivered
    /\ redisEnabled /\ botConfigured /\ ~webhookConfigured

DeliverySpec == DeliveryInit /\ [][TwoTierNext]_vars

\* the scheduler together with the run of each invocation: REDIS_ENABLED=false,
\* the Bot API as the only channel, the runs within one reading of Date.now()
InvocationInit == MemoryOnlyInit /\ botConfigured /\ ~webhookConfigured

InvocationNext ==
    \/ StartScheduler
    \/ InvokeTask
    \/ InvokedThrow
    \/ BeforeRun /\ RunStart
    \/ BeforeRun /\ RunFetchFail
    \/ PushError
    \/ ProcessMemory
    \/ PushViaBotApi
    \/ MarkNoticesAsSent
    \/ RunFinish
    \/ InvokedSettle

InvocationSpec == InvocationInit /\ [][InvocationNext]_vars

\* the schedule API of a process started with any SCHEDULE_ENABLED and any
\* SCHEDULE_CRON, called in any order while the scheduled task fires
ManagerInit ==
    /\ RunInit
    /\ SchedInit
    /\ retryTimes = DefaultRetryTimes
    /\ pageCount = 1
    /\ ~runOnceMode /\ ~devMode
    /\ source = "page"
    /\ filterKeywords = <<>>
    /\ pushMode = "single"
    /\ categoryRules = <<HousingRule, BuildingRule, DefaultRule>>
    /\ ~recordDelivered
    /\ ~redisEnabled /\ botConfigured /\ ~webhookConfigured

ManagerSpec == ManagerInit /\ [][ManagerNext]_vars

\* one call of fetchMultiplePages, for any CRAWLER_RETRY_TIMES and any number
\* of pages
FetchInit ==
    /\ RunInit
    /\ SchedInit
    /\ ~runOnceMode /\ scheduleEnabled /\ ~devMode
    /\ cronExpression = DefaultCron
    /\ source = "page"
    /\ filterKeywords = <<>>
    /\ pushMode = "single"
    /\ categoryRules = <<HousingRule, BuildingRule, DefaultRule>>
    /\ ~recordDelivered
    /\ ~redisEnabled /\ botConfigured /\ ~webhookConfigured

FetchSpec == FetchInit /\ [][FetchNext]_vars

\* REDIS_ENABLED=false and a page mixing records the filter keeps with
\* records it drops
FilterInit ==
    /\ SchedulerModeInit
    /\ source = "mixed"
    /\ filterKeywords = <<>>
    /\ pushMode = "single"
    /\ categoryRules = <<HousingRule, BuildingRule, DefaultRule>>
    /\ ~recordDelivered
    /\ ~redisEnabled

FilterSpec == FilterInit /\ [][MemoryOnlyNext]_vars

\* REDIS_ENABLED=false, the Bot API as the only channel, a page of records of
\* several categories, pushed in mode 'categorized' or 'by-category'; the
\* rule file lists the rules in any order
CategoryInit ==
    /\ SchedulerModeInit
    /\ source = "classified"
    /\ filterKeywords = <<>>
    /\ pushMode # "single"
    /\ ~recordDelivered
    /\ ~redisEnabled /\ botConfigured /\ ~webhookConfigured

CategoryNext ==
    \/ RunStart
    \/ RunFetchFail
    \/ PushError
    \/ ProcessMemory
    \/ PushCategorized
    \/ PushByCategory
    \/ MarkNoticesAsSent
    \/ RunFinish

CategorySpec == CategoryInit /\ [][CategoryNext]_vars

\* as CategorySpec with the rule file in priority order and a page of titles
\* that carry square brackets
StageInit ==
    /\ SchedulerModeInit
    /\ source = "bracketed"
    /\ filterKeywords = <<>>
    /\ pushMode # "single"
    /\ categoryRules = <<HousingRule, BuildingRule, DefaultRule>>
    /\ ~recordDelivered
    /\ ~redisEnabled /\ botConfigured /\ ~webhookConfigured

StageSpec == StageInit /\ [][CategoryNext]_vars

\* as StageSpec with a page of up to MaxPage records
OrderInit ==
    /\ SchedulerModeInit
    /\ source = "ordered"
    /\ filterKeywords = <<>>
    /\ pushMode # "single"
    /\ categoryRules = <<HousingRule, BuildingRule, DefaultRule>>
    /\ ~recordDelivered
    /\ ~redisEnabled /\ botConfigured /\ ~webhookConfigured

OrderSpec == OrderInit /\ [][CategoryNext]_vars

\* REDIS_ENABLED=false, the Bot API as the only channel, FILTER_KEYWORDS unset
\* or set to one keyword, a page of records the three filters treat
\* differently
KeywordInit ==
    /\ SchedulerModeInit
    /\ source = "keywords"
    /\ pushMode = "single"
    /\ categoryRules = <<HousingRule, BuildingRule, DefaultRule>>
    /\ ~recordDelivered
    /\ ~redisEnabled /\ botConfigured /\ ~webhookConfigured

KeywordNext ==
    \/ RunStart
    \/ RunFetchFail
    \/ PushError
    \/ ProcessMemory
    \/ PushViaBotApi
    \/ MarkNoticesAsSent
    \/ RunFinish

KeywordSpec == KeywordInit /\ [][KeywordNext]_vars

\* as KeywordSpec with FILTER_KEYWORDS unset and a page on which two records
\* share an id
TwinInit ==
    /\ SchedulerModeInit
    /\ source = "twins"
    /\ filterKeywords = <<>>
    /\ pushMode = "single"
    /\ categoryRules = <<HousingRule, BuildingRule, DefaultRule>>
    /\ ~recordDelivered
    /\ ~redisEnabled /\ botConfigured /\ ~webhookConfigured

TwinSpec == TwinInit /\ [][KeywordNext]_vars

\* ids handed to MemoryCache.add one at a time
CacheKeys == { <<"file", k, FALSE>> : k \in 1..MaxKeys }

\* MemoryCache.add(id), as DeduplicationFilter.markAsSent and each turn of
\* addBatch's forEach call it
CacheAddFrom(keys) ==
    /\ \E id \in keys : cache' = CacheAdd(cache, id, now)
    /\ tierOp' = "add"
    /\ removedCount' = 0
    /\ UNCHANGED <<now, redisKeys, redisEnabled, redisInit, isConnected,
                   isRedisAvailable, probeDone>>
    /\ UNCHANGED <<checkPath, cacheAtCheck, redisAtCheck, healthyAtCheck, markPath>>
    /\ UNCHANGED <<feishuVars, envVars, fetchVars, stageVars, runVars, schedVars>>

CacheAddKey == CacheAddFrom(CacheKeys)

\* the memory tier alone, driven key by key while the clock advances
CacheInit == Init /\ ~redisEnabled /\ botConfigured /\ ~webhookConfigured

CacheNext ==
    \/ Tick
    \/ CacheAddKey

CacheSpec == CacheInit /\ [][CacheNext]_vars

\* a day passes on the clock Date.now() reads; the explored horizon reaches
\* past maxAge
DayPasses ==
    /\ now < maxAge + MaxTime
    /\ now' = now + 1
    /\ UNCHANGED <<cache, redisKeys, redisEnabled, redisInit, isConnected,
                   isRedisAvailable, probeDone>>
    /\ UNCHANGED <<feishuVars, envVars, fetchVars, stageVars, runVars, obsVars, schedVars>>

\* MemoryCache.add of an id of the catalogue
TierAdd == CacheAddFrom(NoticeIds)

\* sequences of distinct ids of the catalogue, as addBatch receives them
TierBatches ==
    { ids \in UNION { [1..k -> NoticeIds] : k \in 1..MaxBatch } :
         \A i, j \in 1..Len(ids) : ids[i] = ids[j] => i = j }

\* MemoryCache.addBatch(ids)
TierAddBatch ==
    /\ \E ids \in TierBatches : cache' = addBatch(cache, ids, now)
    /\ tierOp' = "addBatch"
    /\ removedCount' = 0
    /\ UNCHANGED <<now, redisKeys, redisEnabled, redisInit, isConnected,
                   isRedisAvailable, probeDone>>
    /\ UNCHANGED <<checkPath, cacheAtCheck, redisAtCheck, healthyAtCheck, markPath>>
    /\ UNCHANGED <<feishuVars, envVars, fetchVars, stageVars, runVars, schedVars>>

\* MemoryCache.clear()
TierClear ==
    /\ cache' = clear(cache)
    /\ tierOp' = "clear"
    /\ removedCount' = 0
    /\ UNCHANGED <<now, redisKeys, redisEnabled, redisInit, isConnected,
                   isRedisAvailable, probeDone>>
    /\ UNCHANGED <<checkPath, cacheAtCheck, redisAtCheck, healthyAtCheck, markPath>>
    /\ UNCHANGED <<feishuVars, envVars, fetchVars, stageVars, runVars, schedVars>>

\* the setInterval callback of startCleanupTimer: MemoryCache.cleanup()
TierCleanup ==
    /\ cache' = cleanup(cache, now)
    /\ tierOp' = "cleanup"
    /\ removedCount' = Len(cache) - Len(cache')
    /\ UNCHANGED <<now, redisKeys, redisEnabled, redisInit, isConnected,
                   isRedisAvailable, probeDone>>
    /\ UNCHANGED <<checkPath, cacheAtCheck, redisAtCheck, healthyAtCheck, markPath>>
    /\ UNCHANGED <<feishuVars, envVars, fetchVars, stageVars, runVars, schedVars>>

\* the memory tier alone under every operation of MemoryCache that changes
\* it, over a horizon of days longer than maxAge
TierNext ==
    \/ DayPasses
    \/ TierAdd
    \/ TierAddBatch
    \/ TierClear
    \/ TierCleanup

TierSpec == CacheInit /\ [][TierNext]_vars

(***************************************************************************)
(* Properties of the dedup / delivery pipeline.                            *)
(***************************************************************************)
\* ids present in some tier when the last novelty check was made: marked
\* sent earlier and neither expired nor evicted since
KnownAtCheck == cacheAtCheck \cup redisAtCheck

\* ids present in the tier whose contents answered the last novelty check
ServedAtCheck ==
    IF checkPath = "memory" THEN cacheAtCheck
    ELSE IF checkPath = "redis" THEN redisAtCheck
    ELSE {}

NonDecreasing(ds) == \A i \in 1..(Len(ds) - 1) : ds[i] <= ds[i + 1]

\* C1: a key that has been marked sent on either tier and is still held by
\* that tier is never classified new by a later novelty check, whichever
\* tier serves the check and whatever happened to tier health in between.
C1_MarkedNeverNewAgain ==
    checkPath # "none" => Ids(newNotices) \cap KnownAtCheck = {}

\* C2: when the payload of a run failed on every channel, none of its
\* records' keys is in the dedup cache at the end of the run.
C2_MarkOnlyAfterDelivery ==
    (runPc = "report" /\ pushResult = "failed")
        => Ids(newNotices) \cap (CacheIds(cache) \cup redisKeys) = {}

\* C6: a payload that was reported failed had its channel attempted exactly
\* MAX_RETRIES times, Bot API or webhook alike, with non-decreasing delays
\* between the attempts.
C6_ExactlyMaxRetries ==
    pushResult = "failed"
        => /\ (IF shouldUseBotApi THEN botAttempts ELSE webhookAttempts) = MAX_RETRIES
           /\ NonDecreasing(delays)

C8_UnhealthyServedByMemory ==
    /\ (checkPath # "none" /\ ~healthyAtCheck)
          => newNotices = SelectSeq(deduped, LAMBDA n : n.id \notin cacheAtCheck)
    /\ (runPc = "report" /\ markPath \in {"memory", "redis_not_ready"})
          => Ids(newNotices) \subseteq CacheIds(cache)

\* C9: after a batch mark-as-sent whose Redis write failed, every key of
\* the batch is present in at least one tier.
C9_FailedWriteFallsBack ==
    (runPc = "report" /\ markPath = "redis_error")
        => Ids(newNotices) \subseteq (CacheIds(cache) \cup redisKeys)

\* a marked record held by the tier that answered the check has the Dedup
\* Key of n and another id
SameKeyOtherId(n) ==
    \E m \in NoticeCatalogue :
        /\ m.id \in ServedAtCheck
        /\ m.id # n.id
        /\ generateDedupeKey(m) = generateDedupeKey(n)

\* C10: cross-run deduplication is keyed by the record id: the records
\* classified new are exactly those of the deduplicated batch whose id the
\* tier answering the check does not hold, whatever their Dedup Keys.
C10_KeyedById ==
    checkPath # "none"
        => newNotices = SelectSeq(deduped, LAMBDA n : n.id \notin ServedAtCheck)

\* a record was classified new although the answering tier holds a marked
\* record with the same Dedup Key and another id
C10_Witness ==
    /\ checkPath \in {"memory", "redis"}
    /\ \E i \in 1..Len(newNotices) : SameKeyOtherId(newNotices[i])

\* C10 as claimed: a record is not classified new when the tier that
\* answered the check holds a marked record with an equal Dedup Key, even if
\* the two records' ids differ.
C10_KeyedByDedupKey ==
    \A i \in 1..Len(newNotices) :
        ~ \E m \in NoticeCatalogue :
              /\ m.id \in ServedAtCheck
              /\ generateDedupeKey(m) = generateDedupeKey(newNotices[i])

\* positions of ns holding the first record of their Dedup Key
FirstOfKey(ns) ==
    { i \in 1..Len(ns) :
        \A j \in 1..(i - 1) : generateDedupeKey(ns[j]) # generateDedupeKey(ns[i]) }

\* C11: of the records of one batch that share a Dedup Key exactly one
\* survives intra-batch deduplication, and it is the first of them in input
\* order; when the Dedup Keys of the batch are pairwise distinct every
\* record survives.
C11_FirstOfEachKeySurvives ==
    checkPath # "none"
        => /\ \A i \in FirstOfKey(notices) :
                 Cardinality({ k \in 1..Len(deduped) :
                     generateDedupeKey(deduped[k]) = generateDedupeKey(notices[i]) }) = 1
           /\ \A k \in 1..Len(deduped) :
                 \E i \in FirstOfKey(notices) : deduped[k] = notices[i]
           /\ (FirstOfKey(notices) = 1..Len(notices)) => deduped = notices

\* a batch held two records with one Dedup Key and different ids, and the
\* first of them is what survived
C11_Witness ==
    /\ checkPath # "none"
    /\ Len(notices) = 2
    /\ notices[1].id # notices[2].id
    /\ generateDedupeKey(notices[1]) = generateDedupeKey(notices[2])
    /\ deduped = <<notices[1]>>

\* C32: the new records of a run hold no id twice, and so the ids handed to
\* the push and to markBatchAsSent are pairwise distinct.
C32_NewIdsDistinct ==
    \A i, j \in 1..Len(newNotices) : newNotices[i].id = newNotices[j].id => i = j

\* C15: a record a run reported delivered and the dedup cache still holds
\* when a later run checks it is not among that run's new records (newCount
\* does not count it and it is not handed to the push).
C15_DeliveredNotNewAgain ==
    runPc = "push"
        => \A n \in Range(newNotices) :
              ~(n.id \in delivered /\ n.id \in (cacheAtCheck \cup redisAtCheck))

\* C17: a run that has got past fetching and parsing never enters the catch
\* of run(), whatever the Redis calls and the push answer; when it returns,
\* also with a failed push, its result is a success carrying the push result;
\* a run returns a failure only from the catch, entered before any dedup or
\* push step of the run.
C17_OnlyFetchFailureFails ==
    [][ /\ runPc \in {"dedup", "redisUpdate", "push", "mark", "report"} => runPc' # "error"
        /\ (runPc = "report" /\ runPc' = "idle")
              => runResult' = "success"
        /\ (runPc = "report" /\ runPc' = "idle" /\ newNotices # <<>>)
              => pushResult \in {"ok", "failed", "array"}
        /\ (runPc # "idle" /\ runPc' = "idle" /\ runResult' = "failure")
              => (runPc = "error" /\ checkPath = "none" /\ pushResult = "none") ]_vars

\* a run whose Redis check went unanswered and whose push failed is about to
\* return
C17_Witness ==
    /\ runPc = "report"
    /\ pushResult = "failed"
    /\ checkPath = "redis_unanswered"
    /\ markPath \in {"redis_error", "redis_not_ready"}

\* C18: a run that entered the catch of run() did so before its dedup and
\* push steps; it calls pushError once and then returns the failure result,
\* whether the error notification was sent or failed.
C18_FailureResultAfterError ==
    [][ runPc = "error"
          => /\ checkPath = "none" /\ pushResult = "none" /\ newNotices = <<>>
             /\ runPc' # "error"
                   => /\ runPc' = "idle"
                      /\ errorNotice' \in {"ok", "failed"}
                      /\ runResult' = "failure" ]_vars

\* a run returned the failure result after its error notification failed
C18_Witness ==
    /\ runPc = "idle"
    /\ runResult = "failure"
    /\ errorNotice = "failed"

\* C29: a run in which no page was fetched, or whose pages held no record,
\* goes from its start straight to the catch of run(): it makes no novelty
\* check, no call of a notice channel and no write to either tier, attempts
\* the error notification and returns a failure result whose three counters
\* are 0.
C29_FetchFailure ==
    [][ /\ (runPc = "idle" /\ runPc' = "error")
              => /\ runError' \in FetchErrors
                 /\ cache' = cache /\ redisKeys' = redisKeys
        /\ runPc = "error"
              => /\ runError \in FetchErrors
                 /\ checkPath = "none" /\ markPath = "none"
                 /\ deduped = <<>> /\ newNotices = <<>>
                 /\ botAttempts = 0 /\ webhookAttempts = 0 /\ pushResult = "none"
                 /\ cache' = cache
                 /\ runPc' # "error"
                       => /\ runPc' = "idle"
                          /\ redisKeys' = redisKeys
                          /\ errorNotice = "none" /\ errorNotice' \in {"ok", "failed"}
                          /\ runResult' = "failure"
                          /\ counters'.totalProcessed = 0
                          /\ counters'.newNotices = 0
                          /\ counters'.filteredOut = 0 ]_vars

\* the second run found no record on its pages and returned the failure
\* result; what the first run had written to Redis is still there
C29_Witness ==
    /\ runPc = "idle"
    /\ runCount = 2
    /\ runError = "no_record"
    /\ runResult = "failure"
    /\ counters = failureCounters
    /\ redisKeys # {}

(***************************************************************************)
(* Properties of the memory tier.                                          *)
(***************************************************************************)
\* C12: an insert of a key the cache does not hold, made when the cache
\* holds exactly CacheSize keys, leaves exactly CacheSize keys, and the one
\* key it evicts carries the smallest timestamp of the cache, also when
\* entries carry the timestamp of the current clock reading.
C12_CapacityEvictsOldest ==
    [][ (Len(cache) = CacheSize /\ CacheIds(cache') \ CacheIds(cache) # {})
            => /\ Cardinality(CacheIds(cache')) = CacheSize
               /\ \E i \in 1..Len(cache) :
                     /\ CacheIds(cache) \ CacheIds(cache') = {cache[i].id}
                     /\ \A j \in 1..Len(cache) :
                           cache[i].timestamp <= cache[j].timestamp ]_vars

\* C21: marking a key a second time changes nothing: after a step that adds
\* a key to the memory tier, adding the same key again at the same clock
\* reading would leave the tier holding the same keys, also when the tier is
\* at capacity.
C21_MarkTwiceSameKeys ==
    [][ \A id \in CacheKeys :
           cache' = CacheAdd(cache, id, now)
               => CacheIds(CacheAdd(cache', id, now')) = CacheIds(cache') ]_vars

\* C31: a step that adds to the memory tier a key it already holds removes
\* no key: every key held before the step is held after it.
C31_ReAddRemovesNothing ==
    [][ \A id \in CacheKeys :
           (CacheHas(cache, id) /\ tierOp' = "add" /\ cache' = CacheAdd(cache, id, now))
               => CacheIds(cache) \subseteq CacheIds(cache') ]_vars

\* C24: whatever sequence of add, addBatch, clear and cleanup has run, the
\* memory tier holds at most CacheSize entries.
C24_NeverOverCapacity == Len(cache) <= CacheSize

\* C30: a run of the background sweep deletes exactly the entries whose age
\* exceeds maxAge and keeps every other entry, with its timestamp and in its
\* place, whether or not the cache is full; it reports the number it deleted.
C30_SweepRemovesExactlyExpired ==
    [][ (tierOp' = "cleanup" /\ now' = now) =>
            LET old == { i \in 1..Len(cache) : now - cache[i].timestamp >= maxAge + 1 }
                young == (1..Len(cache)) \ old
            IN  /\ \A i \in old : cache[i].id \notin CacheIds(cache')
                /\ \A i \in young : \E j \in 1..Len(cache') : cache'[j] = cache[i]
                /\ Len(cache') = Cardinality(young)
                /\ \A i, j \in young :
                      i < j => \E k, l \in 1..Len(cache') :
                                  k < l /\ cache'[k] = cache[i] /\ cache'[l] = cache[j]
                /\ removedCount' = Cardinality(old) ]_vars

\* the sweep deleted one entry from a cache that was not over capacity and
\* kept an entry whose age is exactly maxAge
C30_Witness ==
    /\ tierOp = "cleanup"
    /\ removedCount = 1
    /\ Len(cache) = 1
    /\ now - cache[1].timestamp = maxAge

\* C22 as stated: the sleep before retry number k of a payload is
\* RETRY_DELAY * 2^k.
C22_ExponentialBackoff ==
    \A k \in 1..Len(delays) : delays[k] = RETRY_DELAY * 2^k

\* C22: the sleep before retry number k of a payload is RETRY_DELAY * k, and
\* there is one sleep for each failed call but the last.
C22_LinearBackoff ==
    /\ \A k \in 1..Len(delays) : delays[k] = RETRY_DELAY * k
    /\ runPc = "push" => Len(delays) = botAttempts + webhookAttempts
    /\ Len(delays) < MAX_RETRIES

\* the webhook failed twice: both sleeps of a payload have been taken
C22_Witness ==
    /\ runPc = "push"
    /\ webhookAttempts = 2
    /\ Len(delays) = 2

ThreeRecordRun ==
    /\ Len(allNotices) = 3
    /\ Range(allNotices) = {OldNotice, ExcludedNotice, ValidNotice}
    /\ checkPath = "memory"
    /\ cacheAtCheck = {}

\* C16 as stated: in such a run newCount is 1 and, when the push has
\* returned, exactly one call of a channel has been made.
C16_OneDeliveryAttempt ==
    (ThreeRecordRun /\ runPc \in {"mark", "report"})
        => /\ Len(newNotices) = 1
           /\ botAttempts + webhookAttempts = 1

\* C16: in such a run newCount is 1 and the one payload, holding the valid
\* record, is sent at least once and at most MAX_RETRIES times, every call
\* after the first following a failed one; a successful call is the last.
C16_OnePayload ==
    (ThreeRecordRun /\ runPc \in {"push", "mark", "report"})
        => /\ newNotices = <<ValidNotice>>
           /\ botAttempts + webhookAttempts <= MAX_RETRIES
           /\ runPc \in {"mark", "report"}
                 => /\ pushResult \in {"ok", "failed"}
                    /\ botAttempts + webhookAttempts >= 1
                    /\ Len(delays) = botAttempts + webhookAttempts - 1
                    /\ pushResult = "failed" /\ ~shouldUseBotApi
                          => webhookAttempts = MAX_RETRIES

\* the webhook failed once and then accepted the payload of such a run
C16_Witness ==
    /\ ThreeRecordRun
    /\ runPc = "mark"
    /\ pushResult = "ok"
    /\ webhookAttempts = 2
    /\ Len(newNotices) = 1

(***************************************************************************)
(* Properties of the classifier and of the category payloads (checked      *)
(* under CategorySpec).                                                    *)
(***************************************************************************)
\* the rule has no keywords, or one of its keywords occurs, whatever the
\* case of either, in title + " " + summary
RuleApplies(rule, n) ==
    LET text == toUpperCase(titleAndSummary(n))
    IN  \/ rule.keywords = <<>>
        \/ \E k \in 1..Len(rule.keywords) :
              LET kw == toUpperCase(rule.keywords[k])
              IN  \E i \in 1..Len(text) :
                     /\ i + Len(kw) - 1 <= Len(text)
                     /\ \A c \in 1..Len(kw) : text[i + c - 1] = kw[c]

\* the name of the rule of the least priority number among those that apply
FirstApplicable(n, rules) ==
    LET applying == { r \in Range(rules) : RuleApplies(r, n) }
    IN  (CHOOSE r \in applying : \A q \in applying : r.priority <= q.priority).name

CatchAll(rules) == CHOOSE r \in Range(rules) : r.keywords = <<>>

\* C14: once the records of a run have been classified, every record of the
\* run is in exactly one category; its category is the name of the first
\* rule, by ascending priority, that is the catch-all or has a keyword
\* occurring case-insensitively in title + " " + summary; a record no keyword
\* occurs in is in the catch-all's category.
C14_FirstApplicableRule ==
    (runPc \in {"mark", "report"} /\ pushMode # "single")
        => /\ \A n \in Range(newNotices) :
                 Cardinality({ k \in 1..Len(categorized) : n \in Range(categorized[k][2]) }) = 1
           /\ \A k \in 1..Len(categorized) :
                 \A n \in Range(categorized[k][2]) :
                    /\ n \in Range(newNotices)
                    /\ categorized[k][1] = FirstApplicable(n, categoryRules)
                    /\ (\A r \in Range(categoryRules) : r.keywords # <<>> => ~RuleApplies(r, n))
                           => categorized[k][1] = CatchAll(categoryRules).name

\* a run classified a record holding the keywords of two rules, one holding
\* a keyword in its summary only and one holding none
C14_Witness ==
    /\ runPc = "mark"
    /\ pushMode # "single"
    /\ Len(newNotices) = 2
    /\ \E n \in Range(newNotices) :
          /\ RuleApplies(HousingRule, n) /\ RuleApplies(BuildingRule, n)
    /\ \E n \in Range(newNotices) :
          /\ ~RuleApplies(HousingRule, n) /\ ~RuleApplies(BuildingRule, n)

\* C19: in mode 'by-category', when the push of a run with new records has
\* returned, its result is an array holding exactly one outcome for each
\* category of those records, whether or not the outcomes before it are
\* failures.
C19_OneOutcomePerCategory ==
    (pushMode = "by-category" /\ runPc \in {"mark", "report"} /\ newNotices # <<>>)
        => /\ Len(outcomes) =
                 Cardinality({ FirstApplicable(n, categoryRules) : n \in Range(newNotices) })
           /\ { outcomes[k].category : k \in 1..Len(outcomes) } =
                 { FirstApplicable(n, categoryRules) : n \in Range(newNotices) }
           /\ pushResult = "array"

\* two categories: the first payload failed, the second was delivered
C19_Witness ==
    /\ pushMode = "by-category"
    /\ runPc = "report"
    /\ Len(outcomes) = 2
    /\ ~outcomes[1].success
    /\ outcomes[2].success

\* the position of the record with this id in the run's new records
PositionIn(ns, id) == CHOOSE i \in 1..Len(ns) : ns[i].id = id

PriorityOf(category) ==
    (CHOOSE r \in Range(categoryRules) : r.name = category).priority

\* the sections hold each new record once, under its category, and the
\* records of a section are in the order of the input
SectionsPartition ==
    /\ \A n \in Range(newNotices) :
          Cardinality({ k \in 1..Len(sections) :
                          \E a \in 1..Len(sections[k].ids) : sections[k].ids[a] = n.id }) = 1
    /\ \A k \in 1..Len(sections) :
          /\ sections[k].ids # <<>>
          /\ \A a \in 1..Len(sections[k].ids) :
                \E n \in Range(newNotices) :
                   /\ n.id = sections[k].ids[a]
                   /\ FirstApplicable(n, categoryRules) = sections[k].category
          /\ \A a, b \in 1..Len(sections[k].ids) :
                a < b => PositionIn(newNotices, sections[k].ids[a])
                            < PositionIn(newNotices, sections[k].ids[b])

C3_AtMostOneInvocation ==
    /\ [](inFlight <= 1)
    /\ [][isRunning => (inFlight' <= inFlight /\ executionCount' = executionCount)]_vars

\* a trigger arrived while an invocation was in flight and was skipped
C3_Witness == skipped > 0 /\ inFlight = 1 /\ isRunning

\* C4: once a graceful shutdown has been requested, no invocation starts.
C4_NoStartAfterShutdown == ~startedInShutdown

\* C5: a requested shutdown always reaches process.exit, after at most
\* maxWaitTime / pollInterval polls, whether or not the in-flight invocation
\* ever returns.
C5_ShutdownCompletes ==
    /\ isShuttingDown ~> exited
    /\ [](waitTime <= maxWaitTime)

\* the shutdown gave up waiting: all polls used, the invocation still in flight
C5_Witness == exited /\ inFlight > 0 /\ isRunning /\ waitTime = maxWaitTime

\* C23: every step that ends an invocation, whether run() resolved with a
\* success result, resolved with a failure result or threw, leaves isRunning
\* FALSE, and a trigger that arrives while isRunning is FALSE is never skipped:
\* it starts the next invocation.
C23_FlagClearedOnEveryPath ==
    [][ /\ inFlight' < inFlight => ~isRunning'
        /\ skipped' # skipped => isRunning
        /\ (~isRunning /\ isRunning') => /\ executionCount' = executionCount + 1
                                         /\ inFlight' = inFlight + 1 ]_vars

\* a trigger was accepted after an invocation ended with an exception
C23_Witness == taskOutcome = "thrown" /\ executionCount = 2 /\ isRunning /\ inFlight = 1

\* C33: a run whose dedup stage returned no new record goes from that stage
\* straight to its report: no call of the Bot API or of the webhook, no push
\* result, no mark-as-sent call and no write to the cache; it returns the
\* success result with newNotices 0.
C33_NothingNewNothingSent ==
    [][ /\ (runPc = "dedup" /\ runPc' # "dedup" /\ newNotices' = <<>>)
              => /\ runPc' = "report"
                 /\ cache' = cache
        /\ (runPc = "report" /\ newNotices = <<>>)
              => /\ botAttempts = 0 /\ webhookAttempts = 0 /\ delays = <<>>
                 /\ pushResult = "none" /\ markPath = "none"
                 /\ runPc' # "report"
                       => /\ runPc' = "idle"
                          /\ runResult' = "success"
                          /\ counters' = successCounters(allNotices, notices, <<>>)
                          /\ cache' = cache ]_vars

\* the second run found every record of its page in the cache and returned
\* the success result
C33_Witness ==
    /\ runPc = "idle"
    /\ runCount = 2
    /\ runResult = "success"
    /\ runError = "none"
    /\ counters = [totalProcessed |-> 2, newNotices |-> 0, filteredOut |-> 0]

\* C34: the promise of run() is never rejected, whatever stage of the run
\* failed, and an invocation of executeTask makes at most one error
\* notification: the catch of executeTask is taken only when the exception
\* arose outside run(), and then the catch of run() was not.
C34_AtMostOneErrorNotice ==
    /\ runResult \in {"none", "success", "failure"}
    /\ ~(errorNotice # "none" /\ taskErrorNotice # "none")
    /\ taskOutcome = "thrown" => runResult = "none" /\ errorNotice = "none"
    /\ taskErrorNotice # "none" => taskOutcome = "thrown"

\* the second invocation's run failed, its error notification failed too,
\* run() resolved and executeTask ended without a notification of its own
C34_Witness ==
    /\ executionCount = 2
    /\ ~isRunning
    /\ taskOutcome = "failure"
    /\ errorNotice = "failed"
    /\ taskErrorNotice = "none"

\* C35: after every call of start, stop, restart, setEnabled or
\* updateSchedule at most one cron task is started and not stopped, this.task
\* is set exactly when there is one, and only when scheduling is enabled; a
\* call of updateSchedule with an expression cron.validate rejects throws and
\* leaves config.schedule.cronExpression and the scheduled task as they were.
C35_OneTaskOnlyIfEnabled ==
    [][ /\ Len(cronTimers') <= 1
        /\ task' <=> (cronTimers' # <<>>)
        /\ task' => scheduleEnabled'
        /\ (lastCall'.op = "updateSchedule" /\ ~validate(lastCall'.arg))
              => /\ lastCall'.threw
                 /\ cronExpression' = cronExpression
                 /\ task' = task
                 /\ cronTimers' = cronTimers ]_vars

\* a task runs on an expression set by an earlier updateSchedule, and a
\* later updateSchedule with an invalid expression has thrown
C35_Witness ==
    /\ lastCall = [op |-> "updateSchedule", arg |-> "every hour", threw |-> TRUE]
    /\ task
    /\ cronExpression = "0 9 * * *"
    /\ cronTimers = <<"0 9 * * *">>

\* the path of a URL as the server sees it
pathname(url) == <<url.dir, url.name, url.upper, url.html>>

\* C37: two records of a parsed page whose URLs differ in path have
\* different ids.
C37_DistinctPathsDistinctIds ==
    \A i, j \in 1..Len(allNotices) :
        pathname(allNotices[i].url) # pathname(allNotices[j].url)
            => allNotices[i].id # allNotices[j].id

\* the pages of the log that ended with a body, in the order of the log
FetchedPages(log) ==
    SelectSeq([k \in 1..Len(log) |-> IF log[k].outcome = "html" THEN log[k].page ELSE 0],
              LAMBDA x : x > 0)

\* C36: the pages are attempted in order and none is skipped, whatever the
\* earlier pages ended with; a page ends with NETWORK_ERROR exactly when
\* retryTimes + 1 requests were made for it and all failed, the sleeps
\* between them being 1000 * 2^attempt ms for attempt 0, 1, ...; no request
\* follows one that succeeded; results holds the pages that returned a body.
C36_RetryThenNetworkError ==
    /\ \A k \in 1..Len(fetchLog) :
          LET p == fetchLog[k]
              n == Len(p.responses)
          IN  /\ p.page = k
              /\ \A a \in 1..(n - 1) : p.responses[a] = "fail"
              /\ Len(p.sleeps) = n - 1
              /\ \A a \in 1..(n - 1) : p.sleeps[a] = 1000 * 2^(a - 1)
              /\ p.outcome = "NETWORK_ERROR"
                    <=> (n = retryTimes + 1 /\ p.responses[n] = "fail")
              /\ p.responses[n] = "fail" => n = retryTimes + 1
    /\ Len(responses) <= retryTimes
    /\ \A a \in 1..Len(responses) : responses[a] = "fail"
    /\ fetchPc = "request" => Len(fetchLog) = pageNum - 1
    /\ fetchPc = "done" => Len(fetchLog) = pageCount
    /\ results = FetchedPages(fetchLog)

\* with the default of 3 retries the first of three pages failed 4 times,
\* after sleeps of 1, 2 and 4 seconds, and the two other pages were fetched
C36_Witness ==
    /\ fetchPc = "done"
    /\ retryTimes = 3
    /\ pageCount = 3
    /\ fetchLog[1].outcome = "NETWORK_ERROR"
    /\ fetchLog[1].responses = <<"fail", "fail", "fail", "fail">>
    /\ fetchLog[1].sleeps = <<1000, 2000, 4000>>
    /\ results = <<2, 3>>

(***************************************************************************)
(* Properties of the order of the stages (checked under StageSpec).        *)
(***************************************************************************)
\* the records of the payloads of the last classification
ClassifiedRecords == UNION { Range(categorized[k][2]) : k \in 1..Len(categorized) }

\* a record as cleanAndValidate returns it
Cleaned(n) == [n EXCEPT !.title = cleanTitle(n.title), !.summary = cleanSummary(n.summary)]

\* a raw record passes the three filters and the validity test
PassesRaw(n) ==
    /\ notBeforeCutoff(NewDate(n.publishDate))
    /\ ~someKeywordIn(excludeKeywords, n)
    /\ isValidNotice(n)

C28_ReturnedRecordsValid ==
    /\ \A i \in 1..Len(notices) :
          /\ notices[i].id[2] # ""
          /\ TitleText(notices[i].title) # <<>>
          /\ notices[i].url.origin # ""
          /\ Len(TitleText(notices[i].title)) >= minTitleLength
          /\ Len(TitleText(notices[i].title)) <= maxTitleLength
    /\ (allNotices # <<>> /\ runPc # "error") => runResult # "failure"

(***************************************************************************)
(* Properties of the three filters (checked under KeywordSpec).            *)
(***************************************************************************)
\* publishDate is a date not before the cutoff
TemporalOk(n) == n.publishDate.valid /\ n.publishDate.age <= dayRange

\* the keyword occurs, whatever the case of either, in title + " " + summary
KeywordOccurs(kw, n) ==
    LET text == toUpperCase(titleAndSummary(n))
        word == toUpperCase(kw)
    IN  \E a \in 1..(Len(text) - Len(word) + 1) : SubSeq(text, a, a + Len(word) - 1) = word

IncludeOk(n) ==
    filterKeywords = <<>> \/ \E k \in 1..Len(filterKeywords) : KeywordOccurs(filterKeywords[k], n)

ExcludeOk(n) == \A k \in 1..Len(excludeKeywords) : ~KeywordOccurs(excludeKeywords[k], n)

\* the records of the page in page order that satisfy the three predicates
Survivors == SelectSeq(allNotices, LAMBDA n : TemporalOk(n) /\ IncludeOk(n) /\ ExcludeOk(n))

\* C26: the three filters applied to the page of a run in any of the six
\* orders leave exactly the records that satisfy the temporal, the include
\* and the exclude predicate; the records that leave the filter stage are
\* the valid ones among them; with no include keyword the include filter
\* returns its input.
C26_FiltersCommute ==
    allNotices # <<>> =>
        /\ filterByExcludeKeywords(filterByKeywords(filterByDate(allNotices))) = Survivors
        /\ filterByKeywords(filterByExcludeKeywords(filterByDate(allNotices))) = Survivors
        /\ filterByExcludeKeywords(filterByDate(filterByKeywords(allNotices))) = Survivors
        /\ filterByDate(filterByExcludeKeywords(filterByKeywords(allNotices))) = Survivors
        /\ filterByKeywords(filterByDate(filterByExcludeKeywords(allNotices))) = Survivors
        /\ filterByDate(filterByKeywords(filterByExcludeKeywords(allNotices))) = Survivors
        /\ runPc = "dedup" => Ids(notices) = Ids(SelectSeq(Survivors, isValidNotice))
        /\ filterKeywords = <<>> => filterByKeywords(allNotices) = allNotices

\* with the include keyword HOUSE, a page of two records lost the one that
\* only the include filter drops
C26_Witness ==
    /\ filterKeywords # <<>>
    /\ runPc = "dedup"
    /\ allNotices = <<OtherNotice, ValidNotice>>
    /\ notices = <<ValidNotice>>

(***************************************************************************)
(* Properties of the order of the records (checked under OrderSpec).       *)
(***************************************************************************)
\* out lists, in the order of inp, records of inp (told apart by their ids)
SubsequenceById(out, inp) ==
    \E f \in [1..Len(out) -> 1..Len(inp)] :
       /\ \A i \in 1..Len(out) : out[i].id = inp[f[i]].id
       /\ \A i, j \in 1..Len(out) : i < j => f[i] < f[j]

\* C27: during a run the records that leave the filter and validation stage
\* are, in page order, records of the page; the records deduplication keeps
\* are, in the same order, records of that output; and each category of the
\* classification lists, in the same order, records that deduplication kept.
C27_OrderPreserved ==
    /\ allNotices # <<>> => SubsequenceById(notices, allNotices)
    /\ runPc \in {"push", "mark", "report"}
          => /\ SubsequenceById(deduped, notices)
             /\ SubsequenceById(newNotices, deduped)
    /\ runPc \in {"mark", "report"}
          => \A k \in 1..Len(categorized) : SubsequenceById(categorized[k][2], newNotices)

\* of a page of three records the middle one was dropped by the filter, the
\* other two were kept in page order by every stage and classified under
\* two categories
C27_Witness ==
    /\ runPc = "mark"
    /\ allNotices = <<SplitKeywordNotice, ExcludedNotice, ValidNotice>>
    /\ SeqIds(newNotices) = <<SplitKeywordNotice.id, ValidNotice.id>>
    /\ Len(categorized) = 2

====
